---- MODULE Spec2Model ----
(***************************************************************************)
(* Model of the libcamera V4L2 buffer cache (V4L2BufferCache) and of the   *)
(* buffer queue/dequeue state machine of V4L2VideoDevice                   *)
(* (src/libcamera/v4l2_videodevice.cpp).                                   *)
(*                                                                         *)
(* The specifications defined:                                             *)
(*   SpecCache  arbitrary sequences of get/put on one V4L2BufferCache      *)
(*   SpecPool   a capture loop cycling a fixed pool of buffers through     *)
(*              get/put, every buffer put before it is got again           *)
(*   Spec       one V4L2VideoDevice: open, buffer allocation, queueBuffer, *)
(*              bufferAvailable/dequeueBuffer, streamOn, streamOff, with   *)
(*              the kernel's buffer queue behind the ioctls                *)
(*   SpecLifecycle  the same device with releaseBuffers and close, every   *)
(*              behaviour cut after MaxSteps steps                         *)
(*   SpecNoCache  queueBuffer and dequeueBuffer on a device without cache  *)
(*   SpecOpen   open and close on nodes of every capability set            *)
(*   SpecFormat getFormat and setFormat in their three variants            *)
(*   SpecFourcc toV4L2Fourcc                                               *)
(*   SpecPad    MediaEntity: addPad and the pad lookups                    *)
(*              (src/libcamera/media_object.cpp)                           *)
(*   SpecPipeline  the Raspberry Pi pipeline handler completing requests   *)
(*              on its capture device (src/libcamera/pipeline/             *)
(*              raspberrypi.cpp)                                           *)
(*   SpecRequeue  the capture device with a bufferReady listener that      *)
(*              queues the buffer again (ispOutputReady)                   *)
(*   SpecAlloc  the GStreamer allocator and buffer pool                    *)
(*              (src/gstreamer/gstlibcameraallocator.cpp,                  *)
(*              gstlibcamerapool.cpp)                                      *)
(*   SpecSrc    the GStreamer element: the streaming task, the camera's    *)
(*              requestCompleted callback and the pending buffers of the   *)
(*              source pads (src/gstreamer/gstlibcamerasrc.cpp,            *)
(*              gstlibcamerapad.cpp)                                       *)
(*   SpecSrcLive  SpecSrc with both threads weakly fair                    *)
(***************************************************************************)
EXTENDS Integers, Sequences, FiniteSets

(***************************************************************************)
(* Bounds of the model.                                                    *)
(***************************************************************************)
\* largest number of cache entries (V4L2 buffers) a cache is created with
MaxEntries == 3
\* number of distinct FrameBuffer objects handed to the operations
NumBuffers == 5
\* number of operations performed in one behaviour
MaxOps == 5

\* largest buffer count passed to exportBuffers / importBuffers
MaxCount == 2
\* number of FrameBuffer objects the caller queues on the device
NumDevBuffers == 2
\* queueBuffer is no longer called once the cache counted this many misses
MaxMiss == 2
\* number of steps of one behaviour of the device with release and close
MaxSteps == 6
\* steps of a behaviour of SpecNoCache
MaxNoCacheSteps == 7
\* pads added to a media entity
MaxPads == 3
\* number of FrameBuffers the FrameBufferAllocator allocates for the first stream
NumFrames == 2
\* number of Requests the streaming task creates in one behaviour
MaxRequests == 3

\* errno value returned (negated) by V4L2BufferCache::get
ENOENT == 2
\* errno values returned (negated) by the buffer allocation functions
EINVAL == 22
ENOMEM == 12
\* errno of an ioctl the kernel refuses: ioctl() returns it negated
EIO == 5

FrameBuffers == 1..NumBuffers

(***************************************************************************)
(* FrameBuffer::planes(): the (dmabuf fd, length) pairs of a FrameBuffer.  *)
(* The pool holds buffers that differ in the descriptor, in the length     *)
(* only, in the number of planes, and one buffer with no plane at all, so  *)
(* that every branch of Entry::operator== is exercised.                    *)
(***************************************************************************)
Plane(fd, length) == [fd |-> fd, length |-> length]

planes(b) ==
    CASE b = 1 -> << Plane(3, 64) >>
      [] b = 2 -> << Plane(4, 64) >>
      [] b = 3 -> << Plane(3, 32) >>
      [] b = 4 -> << Plane(3, 64), Plane(4, 64) >>
      [] b = 5 -> << >>
      [] OTHER -> << Plane(3 + b, 64) >>

(***************************************************************************)
(* V4L2BufferCache::Entry                                                  *)
(***************************************************************************)
\* Entry::Entry(): a free entry with no plane recorded
EntryDefault == [free |-> TRUE, planes_ |-> << >>]

\* Entry::Entry(bool free, const FrameBuffer &buffer): copies the planes
Entry(free, bufferPlanes) ==
    [free |-> free,
     planes_ |-> [i \in 1..Len(bufferPlanes) |->
                    Plane(bufferPlanes[i].fd, bufferPlanes[i].length)]]

\* Entry::operator==(const FrameBuffer &buffer)
EntryEquals(entry, bufferPlanes) ==
    IF Len(entry.planes_) # Len(bufferPlanes)
    THEN FALSE
    ELSE \A i \in 1..Len(bufferPlanes) :
            ~(entry.planes_[i].fd # bufferPlanes[i].fd
              \/ entry.planes_[i].length # bufferPlanes[i].length)

(***************************************************************************)
(* V4L2BufferCache: the vector of entries, indexed from 0 as in the code,  *)
(* and the miss counter.                                                   *)
(***************************************************************************)
NoCache == [exists |-> FALSE]

CacheSize(entries) == Cardinality(DOMAIN entries)

\* variant of CacheNew that creates one entry more than asked
CacheNewOneMore(numEntries) ==
    [exists |-> TRUE,
     entries |-> [i \in 0..numEntries |-> EntryDefault],
     missCounter_ |-> 0]

\* V4L2BufferCache::V4L2BufferCache(unsigned int numEntries)
CacheNew(numEntries) ==
    [exists |-> TRUE,
     entries |-> [i \in 0..(numEntries - 1) |-> EntryDefault],
     missCounter_ |-> 0]

\* variant of CacheFromBuffers that marks the pre-populated entries bound
CacheFromBuffersBound(buffers) ==
    [exists |-> TRUE,
     entries |-> [i \in 0..(Len(buffers) - 1) |-> Entry(FALSE, planes(buffers[i + 1]))],
     missCounter_ |-> 0]

\* V4L2BufferCache::V4L2BufferCache(const std::vector<std::unique_ptr<FrameBuffer>> &)
\* cache_.emplace_back(true, buffer->planes()): the first argument is the
\* entry's free flag, the planes are converted to a FrameBuffer and copied.
CacheFromBuffers(buffers) ==
    [exists |-> TRUE,
     entries |-> [i \in 0..(Len(buffers) - 1) |-> Entry(TRUE, planes(buffers[i + 1]))],
     missCounter_ |-> 0]

\* variant of GetScan without the "if (!entry.free) continue" test
RECURSIVE GetScanAnyEntry(_, _, _, _)
GetScanAnyEntry(entries, bufferPlanes, index, use) ==
    IF index >= CacheSize(entries)
    THEN [hit |-> FALSE, use |-> use]
    ELSE LET use1 == IF use < 0 THEN index ELSE use
         IN  IF EntryEquals(entries[index], bufferPlanes)
             THEN [hit |-> TRUE, use |-> index]
             ELSE GetScanAnyEntry(entries, bufferPlanes, index + 1, use1)

\* variant of GetScan that stops at the first free entry, matching or not
RECURSIVE GetScanFirstFree(_, _, _, _)
GetScanFirstFree(entries, bufferPlanes, index, use) ==
    IF index >= CacheSize(entries)
    THEN [hit |-> FALSE, use |-> use]
    ELSE IF ~entries[index].free
         THEN GetScanFirstFree(entries, bufferPlanes, index + 1, use)
         ELSE [hit |-> EntryEquals(entries[index], bufferPlanes), use |-> index]

\* the loop of V4L2BufferCache::get, from position index with the candidate use
RECURSIVE GetScan(_, _, _, _)
GetScan(entries, bufferPlanes, index, use) ==
    IF index >= CacheSize(entries)
    THEN [hit |-> FALSE, use |-> use]
    ELSE IF ~entries[index].free
         THEN GetScan(entries, bufferPlanes, index + 1, use)
         ELSE LET use1 == IF use < 0 THEN index ELSE use
              IN  IF EntryEquals(entries[index], bufferPlanes)
                  THEN [hit |-> TRUE, use |-> index]
                  ELSE GetScan(entries, bufferPlanes, index + 1, use1)

\* variant of CacheGet that rebinds entry 0 when no entry is free
CacheGetEvicts(c, bufferPlanes) ==
    LET scan == GetScan(c.entries, bufferPlanes, 0, -1)
        miss == IF ~scan.hit THEN c.missCounter_ + 1 ELSE c.missCounter_
        use == IF scan.use < 0 /\ CacheSize(c.entries) > 0 THEN 0 ELSE scan.use
    IN  IF use < 0
        THEN [ret |-> -ENOENT, cache |-> [c EXCEPT !.missCounter_ = miss]]
        ELSE [ret |-> use,
              cache |-> [c EXCEPT !.missCounter_ = miss,
                                  !.entries[use] = Entry(FALSE, bufferPlanes)]]

\* V4L2BufferCache::get: the return value and the cache after the call
CacheGet(c, bufferPlanes) ==
    LET scan == GetScan(c.entries, bufferPlanes, 0, -1)
        miss == IF ~scan.hit THEN c.missCounter_ + 1 ELSE c.missCounter_
    IN  IF scan.use < 0
        THEN [ret |-> -ENOENT, cache |-> [c EXCEPT !.missCounter_ = miss]]
        ELSE [ret |-> scan.use,
              cache |-> [c EXCEPT !.missCounter_ = miss,
                                  !.entries[scan.use] = Entry(FALSE, bufferPlanes)]]

\* variant of CachePut that leaves the entry bound
CachePutKeepsBound(c, index) == c

\* variant of CachePut that resets the entry as Entry() does
CachePutResetsEntry(c, index) ==
    [c EXCEPT !.entries[index] = EntryDefault]

\* V4L2BufferCache::put; ASSERT(index < cache_.size()) is the callers' guard
CachePut(c, index) ==
    [c EXCEPT !.entries[index].free = TRUE]

(***************************************************************************)
(* State.                                                                  *)
(***************************************************************************)
VARIABLES
    cache_,          \* the V4L2BufferCache (V4L2VideoDevice::cache_), or NoCache
    last,            \* the operation performed by the last step, with its result
    nops,            \* number of operations performed so far
    numGets,         \* number of get calls that returned an index
    numPuts,         \* number of put calls
    numPutsBound,    \* number of put calls made on a bound entry
    released,        \* indices bound by a get, then freed by put, not taken since
    pool,            \* the buffers the capture loop cycles through
    held,            \* capture loop: the index each pool buffer holds, or -1
    firstIndex,      \* capture loop: the index of each buffer's first get, or -1
    caps_,           \* the capability flags the device node reports (QUERYCAP)
    isOpen,          \* V4L2Device::isOpen(): the device node is open
    fdEvent_,        \* the EventNotifier: whether it exists, its type, enabled
    bufferType_,     \* V4L2VideoDevice::bufferType_
    memoryType_,     \* V4L2VideoDevice::memoryType_
    queuedBuffers_,  \* the in-flight map: V4L2 buffer index -> FrameBuffer
    buffers,         \* the output vector of exportBuffers
    bufferReady,     \* the bufferReady emissions of the last step, in order
    kernel,          \* the driver's side of the ioctls: buffers, queue, streaming
    format,          \* the V4L2DeviceFormat the caller passes to get/setFormat
    driverFormat,    \* the v4l2_format the driver has applied to the node
    queuedRequests_, \* CameraData::queuedRequests_: the camera's request FIFO
    pendingBuffers,  \* for each queued request, its buffers not completed yet
    completedRequests, \* the completeRequest calls made so far, in order
    conversion,      \* the last toV4L2Fourcc call: its arguments and its result
    pads_,           \* MediaEntity::pads_: the entity's pads in insertion order
    lookup,          \* the last pad lookup: the function, its argument, its result
    requeued,        \* the queueBuffer calls the bufferReady listener made in
                     \* its last activation, in order, with what they returned
    pools,           \* GstLibcameraAllocator::pools: per stream, the free FrameWraps
    outstanding_planes_, \* FrameWrap::outstanding_planes_ of each frame
    attached,        \* for each GstMemory, the GstBuffer it is appended to, or 0
    downstream,      \* for each GstMemory, the references other elements hold
    queue,           \* GstLibcameraPool::queue of each stream's pool
    handed,          \* the GstBuffers acquire_buffer gave out, not released yet
    task,            \* the streaming task: GST_TASK_STATE, the position of its
                     \* thread in gst_libcamera_src_task_run and its locals
    callback,        \* the camera thread: its position in requestCompleted
    objectLock,      \* the thread that holds the element's object lock
    requests,        \* GstLibcameraSrcState::requests: the RequestWrap queue
    camera,          \* the camera: its request FIFO and the requests submitted
    pending_buffers, \* GstLibcameraPad::pending_buffers of each source pad
    pushed,          \* the buffers gst_pad_push was called with, per pad
    queuedOnPad,     \* the buffers queue_buffer was called with, per pad
    nrequests        \* the number of Requests created and not deleted

cacheVars == << cache_, last, nops >>
countVars == << numGets, numPuts, numPutsBound, released >>
poolVars == << pool, held, firstIndex >>
formatVars == << format, driverFormat >>
padVars == << pads_, lookup >>
allocVars == << pools, outstanding_planes_, attached, downstream, queue, handed >>
srcVars == << task, callback, objectLock, requests, camera, pending_buffers,
             pushed, queuedOnPad, nrequests >>
extVars == << requeued, allocVars, srcVars >>
auxVars == << formatVars, conversion, padVars, extVars >>
pipelineVars == << queuedRequests_, pendingBuffers, completedRequests >>
devVars == << caps_, isOpen, fdEvent_, bufferType_, memoryType_, queuedBuffers_,
              buffers, bufferReady, kernel, auxVars, pipelineVars >>
vars == << cache_, last, nops, numGets, numPuts, numPutsBound, released,
           pool, held, firstIndex, caps_, isOpen, fdEvent_, bufferType_,
           memoryType_, queuedBuffers_, buffers, bufferReady, kernel,
           format, driverFormat, queuedRequests_, pendingBuffers,
           completedRequests, conversion, pads_, lookup, requeued,
           pools, outstanding_planes_, attached, downstream, queue, handed,
           task, callback, objectLock, requests, camera, pending_buffers,
           pushed, queuedOnPad, nrequests >>

\* the EventNotifier before open(): fdEvent_(nullptr)
NoNotifier == [exists |-> FALSE, type |-> "None", enabled |-> FALSE]

\* the driver before any ioctl: no buffer allocated, nothing queued, stopped;
\* owner is the FrameBuffer VIDIOC_QBUF handed over for each queued index
KernelIdle ==
    [nbufs |-> 0, streaming |-> FALSE, queued |-> {}, done |-> << >>,
     owner |-> << >>]

\* V4L2VideoDevice::V4L2VideoDevice(deviceNode): the members after construction
DeviceConstructed ==
    /\ isOpen = FALSE
    /\ fdEvent_ = NoNotifier
    /\ bufferType_ = "VIDEO_CAPTURE_MPLANE"
    /\ memoryType_ = "MMAP"
    /\ queuedBuffers_ = << >>
    /\ buffers = << >>
    /\ bufferReady = << >>
    /\ kernel = KernelIdle

\* no format has been passed to the device or asked from it
NoFormat == [variant |-> "none"]

\* no pixel format has been converted
NoFourcc == [pixelFormat |-> 0, multiplanar |-> FALSE, v4l2 |-> 0, called |-> FALSE]

\* nullptr as a MediaPad pointer, and the state before any pad lookup
NoPad == [obj |-> 0, id |-> 0, index |-> 0]
NoLookup == [op |-> "none", arg |-> 0, pad |-> NoPad]

\* no allocator and no buffer pool has been created
AllocIdle ==
    /\ pools = << >>
    /\ outstanding_planes_ = << >>
    /\ attached = << >>
    /\ downstream = << >>
    /\ queue = << >>
    /\ handed = {}

\* the GStreamer element does not exist
SrcIdle ==
    /\ task = << >>
    /\ callback = << >>
    /\ objectLock = "none"
    /\ requests = << >>
    /\ camera = << >>
    /\ pending_buffers = << >>
    /\ pushed = << >>
    /\ queuedOnPad = << >>
    /\ nrequests = 0

\* the listener has made no call, the GStreamer objects do not exist
ExtIdle ==
    /\ requeued = << >>
    /\ AllocIdle
    /\ SrcIdle

\* the parts of the state that only the specifications of the format
\* functions and of the pipeline handler use, while they are not in use
AuxIdle ==
    /\ format = NoFormat
    /\ driverFormat = NoFormat
    /\ queuedRequests_ = << >>
    /\ pendingBuffers = << >>
    /\ completedRequests = << >>
    /\ conversion = NoFourcc
    /\ pads_ = << >>
    /\ lookup = NoLookup
    /\ ExtIdle

Constructed ==
    /\ DeviceConstructed
    /\ AuxIdle

\* the record of a step: the operation, its arguments and what it returned;
\* status is the FrameMetadata status stamped on the buffer returned, outcome
\* the driver's answer to the ioctls of a buffer allocation
NoOp ==
    [op |-> "none", buffer |-> 0, index |-> -1, ret |-> 0, hit |-> FALSE,
     status |-> "none", outcome |-> "none"]

\* the entries of the cache that are not free
Bound(c) == { i \in DOMAIN c.entries : ~c.entries[i].free }
Free(c) == { i \in DOMAIN c.entries : c.entries[i].free }

\* the buffers 1..n in allocation order
BufferList(n) == [i \in 1..n |-> i]

(***************************************************************************)
(* SpecCache: any sequence of get and put on one cache, created by either  *)
(* constructor.                                                            *)
(***************************************************************************)
CacheInit ==
    /\ cache_ = NoCache
    /\ last = NoOp
    /\ nops = 0
    /\ numGets = 0
    /\ numPuts = 0
    /\ numPutsBound = 0
    /\ released = {}
    /\ pool = {}
    /\ held = [b \in {} |-> -1]
    /\ firstIndex = [b \in {} |-> -1]
    /\ caps_ = {"STREAMING", "VIDEO_CAPTURE"}
    /\ Constructed

\* new V4L2BufferCache(numEntries)
ConstructEmpty(numEntries) ==
    /\ ~cache_.exists
    /\ cache_' = CacheNew(numEntries)
    /\ last' = [NoOp EXCEPT !.op = "new", !.index = numEntries]
    /\ UNCHANGED << nops, countVars, poolVars, devVars >>

\* new V4L2BufferCache(buffers)
ConstructFromBuffers(numEntries) ==
    /\ ~cache_.exists
    /\ cache_' = CacheFromBuffers(BufferList(numEntries))
    /\ last' = [NoOp EXCEPT !.op = "newFromBuffers", !.index = numEntries]
    /\ UNCHANGED << nops, countVars, poolVars, devVars >>

\* cache.get(buffer)
Get(b) ==
    /\ cache_.exists
    /\ nops < MaxOps
    /\ LET r == CacheGet(cache_, planes(b))
       IN  /\ cache_' = r.cache
           /\ last' = [op |-> "get", buffer |-> b, index |-> -1, ret |-> r.ret,
                       hit |-> (r.cache.missCounter_ = cache_.missCounter_),
                       status |-> "none", outcome |-> "none"]
           /\ numGets' = IF r.ret >= 0 THEN numGets + 1 ELSE numGets
           /\ released' = released \ {r.ret}
    /\ nops' = nops + 1
    /\ UNCHANGED << numPuts, numPutsBound, poolVars, devVars >>

\* cache.put(index), with index < cache_.size() as the ASSERT requires
Put(index) ==
    /\ cache_.exists
    /\ nops < MaxOps
    /\ index < CacheSize(cache_.entries)
    /\ cache_' = CachePut(cache_, index)
    /\ last' = [NoOp EXCEPT !.op = "put", !.index = index]
    /\ numPuts' = numPuts + 1
    /\ numPutsBound' = IF cache_.entries[index].free THEN numPutsBound
                       ELSE numPutsBound + 1
    /\ released' = IF cache_.entries[index].free THEN released
                   ELSE released \cup {index}
    /\ nops' = nops + 1
    /\ UNCHANGED << numGets, poolVars, devVars >>

CacheNext ==
    \/ \E n \in 0..MaxEntries : ConstructEmpty(n)
    \/ \E n \in 0..MaxEntries : ConstructFromBuffers(n)
    \/ \E b \in FrameBuffers : Get(b)
    \/ \E i \in 0..(MaxEntries - 1) : Put(i)

SpecCache == CacheInit /\ [][CacheNext]_vars

(***************************************************************************)
(* SpecPool: a capture loop over a fixed pool of K <= N distinct buffers.  *)
(* A buffer is passed to get only while it holds no index, and put frees   *)
(* the index the buffer holds.                                             *)
(***************************************************************************)
PoolInit ==
    /\ \E n \in 1..MaxEntries :
          /\ cache_ \in { CacheNew(n), CacheFromBuffers(BufferList(n)) }
          /\ \E k \in 1..n : pool = 1..k
    /\ held = [b \in pool |-> -1]
    /\ firstIndex = [b \in pool |-> -1]
    /\ last = NoOp
    /\ nops = 0
    /\ numGets = 0
    /\ numPuts = 0
    /\ numPutsBound = 0
    /\ released = {}
    /\ caps_ = {"STREAMING", "VIDEO_CAPTURE"}
    /\ Constructed

\* the loop queues buffer b: cache.get(b)
PoolGet(b) ==
    /\ held[b] = -1
    /\ nops < MaxOps
    /\ LET r == CacheGet(cache_, planes(b))
       IN  /\ cache_' = r.cache
           /\ last' = [op |-> "get", buffer |-> b, index |-> firstIndex[b],
                       ret |-> r.ret,
                       hit |-> (r.cache.missCounter_ = cache_.missCounter_),
                       status |-> "none", outcome |-> "none"]
           /\ held' = [held EXCEPT ![b] = IF r.ret >= 0 THEN r.ret ELSE -1]
           /\ firstIndex' = IF firstIndex[b] = -1 /\ r.ret >= 0
                            THEN [firstIndex EXCEPT ![b] = r.ret]
                            ELSE firstIndex
    /\ nops' = nops + 1
    /\ UNCHANGED << countVars, pool, devVars >>

\* buffer b completes: cache.put(index of b)
PoolPut(b) ==
    /\ held[b] >= 0
    /\ nops < MaxOps
    /\ cache_' = CachePut(cache_, held[b])
    /\ last' = [NoOp EXCEPT !.op = "put", !.buffer = b, !.index = held[b]]
    /\ held' = [held EXCEPT ![b] = -1]
    /\ nops' = nops + 1
    /\ UNCHANGED << countVars, pool, firstIndex, devVars >>

PoolNext ==
    \/ \E b \in pool : PoolGet(b)
    \/ \E b \in pool : PoolPut(b)

SpecPool == PoolInit /\ [][PoolNext]_vars

(***************************************************************************)
(* Properties of the buffer cache.                                         *)
(***************************************************************************)
Min(S) == CHOOSE x \in S : \A y \in S : x <= y

\* the free entries whose recorded planes are those of buffer b
FreeMatches(c, b) == { i \in Free(c) : c.entries[i].planes_ = planes(b) }

\* C1 (as stated): the number of bound entries equals the number of
\* successful gets minus the number of puts, and never exceeds N.
BoundIsGetsMinusPuts ==
    cache_.exists =>
        /\ Cardinality(Bound(cache_)) = numGets - numPuts
        /\ Cardinality(Bound(cache_)) <= CacheSize(cache_.entries)

\* C1 (amended): the number of bound entries equals the number of successful
\* gets minus the number of puts made on a bound entry, and never exceeds N.
BoundIsGetsMinusEffectivePuts ==
    cache_.exists =>
        /\ Cardinality(Bound(cache_)) = numGets - numPutsBound
        /\ Cardinality(Bound(cache_)) <= CacheSize(cache_.entries)

BoundCountWitness ==
    /\ cache_.exists
    /\ numGets >= 2
    /\ numPutsBound >= 1
    /\ numPuts > numPutsBound
    /\ Bound(cache_) # {}

\* C2: no two bound entries record the same plane identity (the same
\* descriptors and lengths in plane order).
NoTwoBoundSameIdentity ==
    cache_.exists =>
        \A i, j \in Bound(cache_) :
            i # j => cache_.entries[i].planes_ # cache_.entries[j].planes_

\* C3: get returns -ENOENT exactly when no entry is free; otherwise it returns
\* an index in [0, N) whose entry was free before the call, and after the
\* call that entry is bound and records the planes of the buffer passed in.
GetReturnsFreeIndexOrENOENT ==
    [][last'.op = "get" =>
        /\ (last'.ret = -ENOENT) <=> (Free(cache_) = {})
        /\ last'.ret # -ENOENT =>
              /\ last'.ret \in 0..(CacheSize(cache_.entries) - 1)
              /\ cache_.entries[last'.ret].free
              /\ ~cache_'.entries[last'.ret].free
              /\ cache_'.entries[last'.ret].planes_ = planes(last'.buffer)]_vars

GetReturnWitness ==
    /\ last.op = "get"
    /\ last.ret >= 1
    /\ 0 \in Bound(cache_)
    /\ Len(cache_.entries[last.ret].planes_) = 2

\* C4: a buffer bound at index i by get and freed by put(i) is given index i
\* again, as a hit, by the next get of identical planes, when no get took
\* index i in between.
HitAfterPut ==
    [][last'.op = "get" =>
        \A i \in released :
            cache_.entries[i].planes_ = planes(last'.buffer) =>
                /\ last'.ret = i
                /\ cache_'.missCounter_ = cache_.missCounter_]_vars

\* C5: when a free entry records the buffer's planes get returns such an
\* entry without counting a miss, even past a free entry of lower index that
\* does not match; when no free entry matches it returns the lowest free
\* index and counts one miss.
GetPrefersMatch ==
    [][last'.op = "get" =>
        /\ FreeMatches(cache_, last'.buffer) # {} =>
              /\ last'.ret \in FreeMatches(cache_, last'.buffer)
              /\ cache_'.missCounter_ = cache_.missCounter_
        /\ (FreeMatches(cache_, last'.buffer) = {} /\ Free(cache_) # {}) =>
              /\ last'.ret = Min(Free(cache_))
              /\ cache_'.missCounter_ = cache_.missCounter_ + 1]_vars

GetPrefersMatchWitness ==
    /\ last.op = "get"
    /\ last.hit
    /\ last.ret >= 1
    /\ \E j \in Free(cache_) :
          /\ j < last.ret
          /\ cache_.entries[j].planes_ # planes(last.buffer)

\* C6: in the capture loop every get of a buffer after its first returns the
\* same index as a hit, and the miss counter never exceeds the pool size K.
StableAffinity ==
    /\ cache_.missCounter_ <= Cardinality(pool)
    /\ (last.op = "get" /\ last.index >= 0) =>
          /\ last.ret = last.index
          /\ last.hit

\* C7 (as stated): a cache created from exported buffers starts with every
\* entry bound, a cache created for import with every entry free.
ExportedCacheStartsBound ==
    /\ last.op = "newFromBuffers" => Free(cache_) = {}
    /\ last.op = "new" => Bound(cache_) = {}

\* C7 (amended): both constructors create a cache of the requested size with
\* every entry free; the cache created from exported buffers records at
\* entry i the planes of the i-th buffer, the cache created for import
\* records no planes.
ConstructedCacheStartsFree ==
    /\ last.op = "newFromBuffers" =>
          /\ DOMAIN cache_.entries = 0..(last.index - 1)
          /\ \A i \in DOMAIN cache_.entries :
                /\ cache_.entries[i].free
                /\ cache_.entries[i].planes_ = planes(i + 1)
    /\ last.op = "new" =>
          /\ DOMAIN cache_.entries = 0..(last.index - 1)
          /\ \A i \in DOMAIN cache_.entries :
                /\ cache_.entries[i].free
                /\ cache_.entries[i].planes_ = << >>

ConstructedCacheWitness ==
    /\ last.op = "newFromBuffers"
    /\ CacheSize(cache_.entries) >= 2

\* C8: put(index) frees the entry at index, keeps the planes it records and
\* leaves every other entry and the miss counter unchanged; on an entry that
\* is already free it leaves the cache unchanged.
PutFreesOnlyIndex ==
    [][last'.op = "put" =>
        /\ cache_'.entries[last'.index].free
        /\ cache_'.entries[last'.index].planes_
              = cache_.entries[last'.index].planes_
        /\ \A j \in DOMAIN cache_.entries :
              j # last'.index => cache_'.entries[j] = cache_.entries[j]
        /\ DOMAIN cache_'.entries = DOMAIN cache_.entries
        /\ cache_'.missCounter_ = cache_.missCounter_
        /\ cache_.entries[last'.index].free => cache_' = cache_]_vars

PutWitness ==
    /\ last.op = "put"
    /\ numPutsBound >= 1
    /\ numPuts = numPutsBound
    /\ cache_.entries[last.index].planes_ # << >>
    /\ Bound(cache_) # {}
    /\ cache_.missCounter_ >= 2

(***************************************************************************)
(* V4L2VideoDevice.                                                        *)
(***************************************************************************)
DevBuffers == 1..NumDevBuffers

\* the capability sets of the device nodes the model opens
CapsChoices ==
    { {"STREAMING", "VIDEO_CAPTURE_MPLANE"},
      {"STREAMING", "VIDEO_OUTPUT"},
      {"VIDEO_CAPTURE"},
      {"STREAMING"} }

\* V4L2Capability
hasStreaming(c) == "STREAMING" \in c
isMultiplanar(c) == c \cap {"VIDEO_CAPTURE_MPLANE", "VIDEO_OUTPUT_MPLANE"} # {}
isVideoCapture(c) == c \cap {"VIDEO_CAPTURE", "VIDEO_CAPTURE_MPLANE"} # {}
isVideoOutput(c) == c \cap {"VIDEO_OUTPUT", "VIDEO_OUTPUT_MPLANE"} # {}
isMetaCapture(c) == "META_CAPTURE" \in c
isMetaOutput(c) == "META_OUTPUT" \in c
isMeta(c) == c \cap {"META_CAPTURE", "META_OUTPUT"} # {}

\* variant of OpenClassify without the test for streaming I/O
OpenClassifyAnyIo(c) ==
    IF isVideoCapture(c)
    THEN [ret |-> 0, notifier |-> "Read",
          bufferType |-> IF isMultiplanar(c) THEN "VIDEO_CAPTURE_MPLANE"
                         ELSE "VIDEO_CAPTURE"]
    ELSE IF isVideoOutput(c)
    THEN [ret |-> 0, notifier |-> "Write",
          bufferType |-> IF isMultiplanar(c) THEN "VIDEO_OUTPUT_MPLANE"
                         ELSE "VIDEO_OUTPUT"]
    ELSE IF isMetaCapture(c)
    THEN [ret |-> 0, notifier |-> "Read", bufferType |-> "META_CAPTURE"]
    ELSE IF isMetaOutput(c)
    THEN [ret |-> 0, notifier |-> "Write", bufferType |-> "META_OUTPUT"]
    ELSE [ret |-> -EINVAL, notifier |-> "None", bufferType |-> "unchanged"]

\* V4L2VideoDevice::open(), after V4L2Device::open() and QUERYCAP succeeded:
\* the return value, the notifier created and the buffer type selected
OpenClassify(c) ==
    IF ~hasStreaming(c)
    THEN [ret |-> -EINVAL, notifier |-> "None", bufferType |-> "unchanged"]
    ELSE IF isVideoCapture(c)
    THEN [ret |-> 0, notifier |-> "Read",
          bufferType |-> IF isMultiplanar(c) THEN "VIDEO_CAPTURE_MPLANE"
                         ELSE "VIDEO_CAPTURE"]
    ELSE IF isVideoOutput(c)
    THEN [ret |-> 0, notifier |-> "Write",
          bufferType |-> IF isMultiplanar(c) THEN "VIDEO_OUTPUT_MPLANE"
                         ELSE "VIDEO_OUTPUT"]
    ELSE IF isMetaCapture(c)
    THEN [ret |-> 0, notifier |-> "Read", bufferType |-> "META_CAPTURE"]
    ELSE IF isMetaOutput(c)
    THEN [ret |-> 0, notifier |-> "Write", bufferType |-> "META_OUTPUT"]
    ELSE [ret |-> -EINVAL, notifier |-> "None", bufferType |-> "unchanged"]

\* open() returned 0: the device is open and its notifier exists
Opened == isOpen /\ fdEvent_.exists

\* std::map operations on queuedBuffers_
MapInsert(m, index, b) ==
    [i \in (DOMAIN m) \cup {index} |-> IF i = index THEN b ELSE m[i]]
MapErase(m, index) ==
    [i \in (DOMAIN m) \ {index} |-> m[i]]

\* queueBuffer: if (queuedBuffers_.empty()) fdEvent_->setEnabled(true)
NotifierAfterQueue(queued, notifier) ==
    IF DOMAIN queued = {} THEN [notifier EXCEPT !.enabled = TRUE] ELSE notifier

\* variant of NotifierAfterDequeue that never disables the notifier
NotifierAfterDequeueKeeps(queued, notifier) == notifier

\* dequeueBuffer: if (queuedBuffers_.empty()) fdEvent_->setEnabled(false),
\* evaluated on the map after the erase
NotifierAfterDequeue(queued, notifier) ==
    IF DOMAIN queued = {} THEN [notifier EXCEPT !.enabled = FALSE] ELSE notifier

\* streamOff: the bufferReady emissions of "for (auto it : queuedBuffers_)",
\* one per map entry in ascending key order, each marked FrameCancelled
RECURSIVE CancelAll(_)
CancelAll(m) ==
    IF DOMAIN m = {}
    THEN << >>
    ELSE LET index == CHOOSE i \in DOMAIN m : \A j \in DOMAIN m : i <= j
         IN  << [buffer |-> m[index], status |-> "FrameCancelled"] >>
             \o CancelAll(MapErase(m, index))

\* VIDIOC_REQBUFS as issued by requestBuffers(count); outcome is the driver's
\* answer: "reqbufs" the ioctl fails, "fewer" it grants fewer buffers than
\* asked (requestBuffers(0) follows, -ENOMEM), otherwise it grants count.
RequestBuffers(k, count, outcome) ==
    IF outcome = "reqbufs" \/ k.streaming
    THEN [ret |-> -EIO, kernel |-> k]
    ELSE IF outcome = "fewer" /\ count > 0
    THEN [ret |-> -ENOMEM,
          kernel |-> [k EXCEPT !.nbufs = 0, !.queued = {}, !.done = << >>,
                               !.owner = << >>]]
    ELSE [ret |-> 0,
          kernel |-> [k EXCEPT !.nbufs = count, !.queued = {}, !.done = << >>,
                               !.owner = << >>]]

\* variant of AlreadyAllocated that never refuses
AlreadyAllocatedIgnored(c) == FALSE

\* exportBuffers / importBuffers: if (cache_)
AlreadyAllocated(c) == c.exists

\* V4L2_TYPE_IS_MULTIPLANAR(type)
TypeIsMultiplanar(type) ==
    type \in {"VIDEO_CAPTURE_MPLANE", "VIDEO_OUTPUT_MPLANE"}

VIDEO_MAX_PLANES == 8

\* the memory the driver allocates for V4L2 buffer index: its planes as
\* (dmabuf descriptor, length) pairs. Buffers of a single-planar device have
\* one plane; buffer 1 of a multi-planar device has two.
DriverPlanes(type, index) ==
    IF TypeIsMultiplanar(type) /\ index = 1 THEN planes(4) ELSE planes(index + 1)

\* VIDIOC_QUERYBUF: the v4l2_buffer the driver fills in. buf.length is the
\* number of planes on a multi-planar device and the length in bytes
\* otherwise; planeCountBad is the driver reporting no plane at all.
QueryBuf(type, index, planeCountBad) ==
    LET p == DriverPlanes(type, index)
    IN  [index |-> index,
         type |-> type,
         length |-> IF TypeIsMultiplanar(type)
                    THEN (IF planeCountBad THEN 0 ELSE Len(p))
                    ELSE p[1].length,
         planes |-> p]

\* variant of createBuffer that builds one plane whatever the buffer type
createBufferOnePlane(buf, expbufFails) ==
    IF expbufFails
    THEN [valid |-> FALSE, planes |-> << >>]
    ELSE [valid |-> TRUE,
          planes |-> << Plane(buf.planes[1].fd, buf.planes[1].length) >>]

\* V4L2VideoDevice::createBuffer(buf): the planes of the FrameBuffer created,
\* or no FrameBuffer. exportDmabufFd(index, nplane) returns the descriptor
\* of the driver's plane, or an invalid one when VIDIOC_EXPBUF fails.
createBuffer(buf, expbufFails) ==
    LET multiPlanar == TypeIsMultiplanar(buf.type)
        numPlanes == IF multiPlanar THEN buf.length ELSE 1
    IN  IF numPlanes = 0 \/ numPlanes > VIDEO_MAX_PLANES
        THEN [valid |-> FALSE, planes |-> << >>]
        ELSE IF expbufFails
        THEN [valid |-> FALSE, planes |-> << >>]
        ELSE [valid |-> TRUE,
              planes |-> [nplane \in 1..numPlanes |->
                            Plane(buf.planes[nplane].fd,
                                  IF multiPlanar THEN buf.planes[nplane].length
                                  ELSE buf.length)]]

\* the FrameBuffer object that holds the planes p
FrameBufferOf(p) == CHOOSE b \in FrameBuffers : planes(b) = p

\* the loop of exportBuffers from index i, acc being the vector so far: the
\* return value and the vector when the loop ends or jumps to err_buf. The
\* driver's failure, if any, strikes at the last index, after the buffers
\* before it were pushed.
RECURSIVE ExportLoop(_, _, _, _, _)
ExportLoop(type, i, count, outcome, acc) ==
    IF i >= count
    THEN [ret |-> 0, buffers |-> acc]
    ELSE LET strikes == (i = count - 1)
             buf == QueryBuf(type, i, strikes /\ outcome = "planes")
             buffer == createBuffer(buf, strikes /\ outcome = "expbuf")
         IN  IF strikes /\ outcome = "querybuf"
             THEN [ret |-> -EIO, buffers |-> acc]
             ELSE IF ~buffer.valid
             THEN [ret |-> -EINVAL, buffers |-> acc]
             ELSE ExportLoop(type, i + 1, count, outcome,
                             Append(acc, FrameBufferOf(buffer.planes)))

\* variant of ErrBuf that leaves the buffers created so far in the vector
ErrBufKeepsPartial(k, partial) ==
    [kernel |-> RequestBuffers(k, 0, "ok").kernel, buffers |-> partial]

\* exportBuffers, label err_buf: requestBuffers(0); buffers->clear()
ErrBuf(k, partial) ==
    [kernel |-> RequestBuffers(k, 0, "ok").kernel, buffers |-> << >>]

DevInit ==
    /\ cache_ = NoCache
    /\ last = NoOp
    /\ nops = 0
    /\ numGets = 0
    /\ numPuts = 0
    /\ numPutsBound = 0
    /\ released = {}
    /\ pool = {}
    /\ held = [b \in {} |-> -1]
    /\ firstIndex = [b \in {} |-> -1]
    /\ caps_ \in CapsChoices
    /\ Constructed

\* the variables of the cache harness other than the step counter, which the
\* device's operations do not touch
otherVars == << countVars, poolVars, auxVars >>

\* V4L2VideoDevice::open()
Open(deviceOpens, queryFails) ==
    /\ ~isOpen
    /\ bufferReady' = << >>
    /\ IF ~deviceOpens
       THEN /\ last' = [NoOp EXCEPT !.op = "open", !.ret = -EIO]
            /\ UNCHANGED << isOpen, fdEvent_, bufferType_ >>
       ELSE IF queryFails
       THEN /\ isOpen' = TRUE
            /\ last' = [NoOp EXCEPT !.op = "open", !.ret = -EIO]
            /\ UNCHANGED << fdEvent_, bufferType_ >>
       ELSE LET r == OpenClassify(caps_)
            IN  /\ isOpen' = TRUE
                /\ last' = [NoOp EXCEPT !.op = "open", !.ret = r.ret]
                /\ IF r.ret = 0
                   THEN /\ fdEvent_' = [exists |-> TRUE, type |-> r.notifier,
                                        enabled |-> FALSE]
                        /\ bufferType_' = r.bufferType
                   ELSE UNCHANGED << fdEvent_, bufferType_ >>
    /\ UNCHANGED << cache_, caps_, memoryType_, queuedBuffers_, buffers, kernel,
                    otherVars >>

\* V4L2VideoDevice::importBuffers(count)
ImportBuffers(count, outcome) ==
    /\ Opened
    /\ bufferReady' = << >>
    /\ IF AlreadyAllocated(cache_)
       THEN /\ last' = [NoOp EXCEPT !.op = "importBuffers", !.ret = -EINVAL]
            /\ UNCHANGED << cache_, memoryType_, kernel >>
       ELSE LET r == RequestBuffers(kernel, count, outcome)
            IN  /\ memoryType_' = "DMABUF"
                /\ kernel' = r.kernel
                /\ last' = [NoOp EXCEPT !.op = "importBuffers", !.ret = r.ret,
                                        !.index = count, !.outcome = outcome]
                /\ cache_' = IF r.ret = 0 THEN CacheNew(count) ELSE cache_
    /\ UNCHANGED << caps_, isOpen, fdEvent_, bufferType_, queuedBuffers_, buffers,
                    otherVars >>

\* V4L2VideoDevice::exportBuffers(count, &buffers); outcome is the driver's
\* answer: a failing or short REQBUFS, a failing QUERYBUF, a plane count
\* createBuffer rejects, a failing EXPBUF, or success. The FrameBuffers are
\* pushed on the vector the caller passed.
ExportBuffers(count, outcome) ==
    /\ Opened
    /\ bufferReady' = << >>
    /\ IF AlreadyAllocated(cache_)
       THEN /\ last' = [NoOp EXCEPT !.op = "exportBuffers", !.ret = -EINVAL]
            /\ UNCHANGED << cache_, memoryType_, kernel, buffers >>
       ELSE LET r == RequestBuffers(kernel, count, outcome)
                e == ExportLoop(bufferType_, 0, count, outcome, buffers)
            IN  /\ memoryType_' = "MMAP"
                /\ IF r.ret < 0
                   THEN /\ kernel' = r.kernel
                        /\ last' = [NoOp EXCEPT !.op = "exportBuffers",
                                                !.ret = r.ret, !.index = count,
                                                !.outcome = outcome]
                        /\ UNCHANGED << cache_, buffers >>
                   ELSE IF e.ret < 0
                   THEN /\ kernel' = ErrBuf(r.kernel, e.buffers).kernel
                        /\ buffers' = ErrBuf(r.kernel, e.buffers).buffers
                        /\ last' = [NoOp EXCEPT !.op = "exportBuffers",
                                                !.ret = e.ret, !.index = count,
                                                !.outcome = outcome]
                        /\ UNCHANGED cache_
                   ELSE /\ kernel' = r.kernel
                        /\ buffers' = e.buffers
                        /\ cache_' = CacheFromBuffers(e.buffers)
                        /\ last' = [NoOp EXCEPT !.op = "exportBuffers",
                                                !.ret = count, !.index = count,
                                                !.outcome = outcome]
    /\ UNCHANGED << caps_, isOpen, fdEvent_, bufferType_, queuedBuffers_,
                    otherVars >>

\* V4L2VideoDevice::queueBuffer(buffer); qbufFails is the driver refusing
\* VIDIOC_QBUF, which it also does for an index it already holds.
QueueBuffer(b, qbufFails) ==
    /\ Opened
    /\ cache_.exists
    /\ cache_.missCounter_ < MaxMiss
    /\ bufferReady' = << >>
    /\ LET r == CacheGet(cache_, planes(b))
       IN  /\ cache_' = r.cache
           /\ IF r.ret < 0
              THEN /\ last' = [NoOp EXCEPT !.op = "queueBuffer", !.buffer = b,
                                           !.ret = r.ret]
                   /\ UNCHANGED << kernel, fdEvent_, queuedBuffers_ >>
              ELSE IF qbufFails \/ r.ret \in kernel.queued \/ r.ret >= kernel.nbufs
              THEN /\ last' = [NoOp EXCEPT !.op = "queueBuffer", !.buffer = b,
                                           !.index = r.ret, !.ret = -EIO]
                   /\ UNCHANGED << kernel, fdEvent_, queuedBuffers_ >>
              ELSE /\ kernel' = [kernel EXCEPT
                                    !.queued = @ \cup {r.ret},
                                    !.owner = MapInsert(@, r.ret, b)]
                   /\ fdEvent_' = NotifierAfterQueue(queuedBuffers_, fdEvent_)
                   /\ queuedBuffers_' = MapInsert(queuedBuffers_, r.ret, b)
                   /\ last' = [NoOp EXCEPT !.op = "queueBuffer", !.buffer = b,
                                           !.index = r.ret, !.ret = 0]
    /\ UNCHANGED << caps_, isOpen, bufferType_, memoryType_, buffers, otherVars >>

\* the driver completes a queued buffer while streaming, with or without
\* V4L2_BUF_FLAG_ERROR; completed buffers wait for VIDIOC_DQBUF in order
DriverCompletes(index, error) ==
    /\ kernel.streaming
    /\ index \in kernel.queued
    /\ \A n \in 1..Len(kernel.done) : kernel.done[n].index # index
    /\ kernel' = [kernel EXCEPT
                     !.done = Append(@, [index |-> index, error |-> error])]
    /\ last' = [NoOp EXCEPT !.op = "complete", !.index = index]
    /\ bufferReady' = << >>
    /\ UNCHANGED << cache_, caps_, isOpen, fdEvent_, bufferType_, memoryType_,
                    queuedBuffers_, buffers, otherVars >>

\* variant of EmitBufferReady that signals the completion twice
EmitBufferReadyTwice(buffer, status) ==
    << [buffer |-> buffer, status |-> status],
       [buffer |-> buffer, status |-> status] >>

\* bufferAvailable: bufferReady.emit(buffer) for the buffer dequeueBuffer
\* returned, which carries the status stamped on it
EmitBufferReady(buffer, status) ==
    << [buffer |-> buffer, status |-> status] >>

\* variant of FrameStatus that ignores the driver's error flag
FrameStatusIgnoresFlag(error) == "FrameSuccess"

\* dequeueBuffer: buf.flags & V4L2_BUF_FLAG_ERROR ? FrameError : FrameSuccess
FrameStatus(error) == IF error THEN "FrameError" ELSE "FrameSuccess"

\* V4L2VideoDevice::dequeueBuffer(): VIDIOC_DQBUF fails when no buffer is
\* complete and nullptr is returned before the cache is looked at; otherwise
\* the index is put back in the cache, its entry leaves the map and the
\* buffer is stamped. emit tells whether the caller is bufferAvailable, which
\* emits bufferReady for the buffer returned.
Dequeue(op, emit) ==
    /\ Opened
    /\ cache_.exists \/ kernel.done = << >>
    /\ IF kernel.done = << >>
       THEN /\ last' = [NoOp EXCEPT !.op = op]
            /\ bufferReady' = << >>
            /\ UNCHANGED << cache_, kernel, queuedBuffers_, fdEvent_ >>
       ELSE LET buf == Head(kernel.done)
                buffer == queuedBuffers_[buf.index]
                status == FrameStatus(buf.error)
            IN  /\ buf.index \in DOMAIN queuedBuffers_
                /\ kernel' = [kernel EXCEPT !.done = Tail(@),
                                            !.queued = @ \ {buf.index},
                                            !.owner = MapErase(@, buf.index)]
                /\ cache_' = CachePut(cache_, buf.index)
                /\ queuedBuffers_' = MapErase(queuedBuffers_, buf.index)
                /\ fdEvent_' = NotifierAfterDequeue(
                                   MapErase(queuedBuffers_, buf.index), fdEvent_)
                /\ last' = [NoOp EXCEPT !.op = op, !.buffer = buffer,
                                        !.index = buf.index,
                                        !.hit = buf.error,
                                        !.status = status]
                /\ bufferReady' = IF emit
                                  THEN EmitBufferReady(buffer, status)
                                  ELSE << >>
    /\ UNCHANGED << caps_, isOpen, bufferType_, memoryType_, buffers, otherVars >>

\* a direct call of dequeueBuffer()
DequeueBuffer == Dequeue("dequeueBuffer", FALSE)

\* V4L2VideoDevice::bufferAvailable(notifier): the slot of the notifier,
\* activated by the event loop while the notifier is enabled
BufferAvailable ==
    /\ fdEvent_.enabled
    /\ Dequeue("bufferAvailable", TRUE)

\* V4L2VideoDevice::streamOn(); the driver refuses without buffers
StreamOn(fails) ==
    /\ Opened
    /\ bufferReady' = << >>
    /\ IF fails \/ kernel.nbufs = 0
       THEN /\ last' = [NoOp EXCEPT !.op = "streamOn", !.ret = -EIO]
            /\ UNCHANGED kernel
       ELSE /\ last' = [NoOp EXCEPT !.op = "streamOn"]
            /\ kernel' = [kernel EXCEPT !.streaming = TRUE]
    /\ UNCHANGED << cache_, caps_, isOpen, fdEvent_, bufferType_, memoryType_,
                    queuedBuffers_, buffers, otherVars >>

\* variant of StreamOff that sends the queued buffers back before it looks
\* at the result of VIDIOC_STREAMOFF
StreamOffFlushesFirst(fails) ==
    /\ Opened
    /\ kernel' = IF fails THEN kernel
                 ELSE [kernel EXCEPT !.streaming = FALSE, !.queued = {},
                                     !.done = << >>, !.owner = << >>]
    /\ bufferReady' = CancelAll(queuedBuffers_)
    /\ queuedBuffers_' = << >>
    /\ fdEvent_' = [fdEvent_ EXCEPT !.enabled = FALSE]
    /\ last' = [NoOp EXCEPT !.op = "streamOff",
                            !.ret = IF fails THEN -EIO ELSE 0]
    /\ UNCHANGED << cache_, caps_, isOpen, bufferType_, memoryType_, buffers,
                    otherVars >>

\* V4L2VideoDevice::streamOff()
StreamOff(fails) ==
    /\ Opened
    /\ IF fails
       THEN /\ last' = [NoOp EXCEPT !.op = "streamOff", !.ret = -EIO]
            /\ bufferReady' = << >>
            /\ UNCHANGED << kernel, queuedBuffers_, fdEvent_ >>
       ELSE /\ kernel' = [kernel EXCEPT !.streaming = FALSE, !.queued = {},
                                        !.done = << >>, !.owner = << >>]
            /\ bufferReady' = CancelAll(queuedBuffers_)
            /\ queuedBuffers_' = << >>
            /\ fdEvent_' = [fdEvent_ EXCEPT !.enabled = FALSE]
            /\ last' = [NoOp EXCEPT !.op = "streamOff"]
    /\ UNCHANGED << cache_, caps_, isOpen, bufferType_, memoryType_, buffers,
                    otherVars >>

Outcomes == {"ok", "reqbufs", "fewer", "querybuf", "planes", "expbuf"}

\* With buffers already allocated importBuffers and exportBuffers return
\* before they look at their argument or issue an ioctl: one call stands for
\* all of them.
Next ==
    \/ \E deviceOpens, queryFails \in BOOLEAN :
          Open(deviceOpens, queryFails) /\ UNCHANGED << nops, pipelineVars >>
    \/ \E count \in 0..MaxCount, outcome \in {"ok", "reqbufs", "fewer"} :
          /\ cache_.exists => (count = 0 /\ outcome = "ok")
          /\ ImportBuffers(count, outcome)
          /\ UNCHANGED << nops, pipelineVars >>
    \/ \E count \in 0..MaxCount, outcome \in Outcomes :
          /\ cache_.exists => (count = 0 /\ outcome = "ok")
          /\ ExportBuffers(count, outcome)
          /\ UNCHANGED << nops, pipelineVars >>
    \/ \E b \in DevBuffers, qbufFails \in BOOLEAN :
          QueueBuffer(b, qbufFails) /\ UNCHANGED << nops, pipelineVars >>
    \/ \E index \in 0..(MaxCount - 1), error \in BOOLEAN :
          DriverCompletes(index, error) /\ UNCHANGED << nops, pipelineVars >>
    \/ DequeueBuffer /\ UNCHANGED << nops, pipelineVars >>
    \/ BufferAvailable /\ UNCHANGED << nops, pipelineVars >>
    \/ \E fails \in BOOLEAN : StreamOn(fails) /\ UNCHANGED << nops, pipelineVars >>
    \/ \E fails \in BOOLEAN : StreamOff(fails) /\ UNCHANGED << nops, pipelineVars >>

Spec == DevInit /\ [][Next]_vars

(***************************************************************************)
(* Properties of the video device.                                         *)
(***************************************************************************)
\* the in-flight buffers: the values of the map
InFlight(m) == { m[i] : i \in DOMAIN m }

\* the number of emissions in seq that carry buffer b
Emissions(seq, b) == Cardinality({ n \in 1..Len(seq) : seq[n].buffer = b })

\* every VIDIOC_DQBUF returns an index the map holds: the driver's queue and
\* the in-flight map have the same indices
DriverQueueIsMap == kernel.queued = DOMAIN queuedBuffers_

\* C9: after a successful streamOff the in-flight map is empty, the notifier
\* is disabled, and every buffer that was in flight when streamOff was called
\* received exactly one bufferReady emission during the call, with cancelled
\* status.
StreamOffCancelsEachOnce ==
    [][(last'.op = "streamOff" /\ last'.ret = 0) =>
        /\ DOMAIN queuedBuffers_' = {}
        /\ ~fdEvent_'.enabled
        /\ \A n \in 1..Len(bufferReady') :
              /\ bufferReady'[n].status = "FrameCancelled"
              /\ bufferReady'[n].buffer \in InFlight(queuedBuffers_)
        /\ \A b \in InFlight(queuedBuffers_) : Emissions(bufferReady', b) = 1]_vars

\* C10: between operations the notifier of an opened device is enabled
\* exactly when the in-flight map is not empty.
NotifierEnabledIffInFlight ==
    Opened => (fdEvent_.enabled <=> DOMAIN queuedBuffers_ # {})

NotifierWitness ==
    /\ Opened
    /\ last.op \in {"dequeueBuffer", "bufferAvailable"}
    /\ last.buffer \in DevBuffers
    /\ DOMAIN queuedBuffers_ = {}
    /\ ~fdEvent_.enabled

(***************************************************************************)
(* SpecLifecycle: the device of Spec with releaseBuffers() and close()     *)
(* added, so that buffers are released and the device is closed and opened *)
(* again in any state, streaming or with buffers in flight.                *)
(***************************************************************************)
\* the EventNotifier after "delete fdEvent_": the pointer dangles, the model
\* performs no operation that uses it until open() creates a new notifier
DeletedNotifier == [exists |-> FALSE, type |-> "Deleted", enabled |-> FALSE]

\* variant of ReleaseResult that keeps the cache when the request fails
ReleaseResultKeepsCache(c, k, open, outcome) ==
    IF ~open
    THEN [ret |-> -EIO, cache |-> c, kernel |-> k]
    ELSE LET r == RequestBuffers(k, 0, outcome)
         IN  [ret |-> r.ret,
              cache |-> IF r.ret < 0 THEN c ELSE NoCache,
              kernel |-> r.kernel]

\* V4L2VideoDevice::releaseBuffers(): the cache and the driver after the
\* call and the value returned. The cache is deleted before the zero-count
\* VIDIOC_REQBUFS is issued; on a closed node the ioctl fails.
ReleaseResult(c, k, open, outcome) ==
    IF ~open
    THEN [ret |-> -EIO, cache |-> NoCache, kernel |-> k]
    ELSE LET r == RequestBuffers(k, 0, outcome)
         IN  [ret |-> r.ret, cache |-> NoCache, kernel |-> r.kernel]

\* V4L2VideoDevice::releaseBuffers()
ReleaseBuffers(outcome) ==
    /\ LET r == ReleaseResult(cache_, kernel, isOpen, outcome)
       IN  /\ cache_' = r.cache
           /\ kernel' = r.kernel
           /\ last' = [NoOp EXCEPT !.op = "releaseBuffers", !.ret = r.ret,
                                   !.outcome = outcome]
    /\ bufferReady' = << >>
    /\ UNCHANGED << caps_, isOpen, fdEvent_, bufferType_, memoryType_,
                    queuedBuffers_, buffers, otherVars >>

\* V4L2VideoDevice::close(): releaseBuffers(), delete fdEvent_,
\* V4L2Device::close(). Closing the node makes the driver stop streaming and
\* free its buffers. The in-flight map is not touched.
Close ==
    /\ bufferReady' = << >>
    /\ IF ~isOpen
       THEN /\ last' = [NoOp EXCEPT !.op = "close", !.ret = -1]
            /\ UNCHANGED << cache_, kernel, isOpen, fdEvent_ >>
       ELSE /\ cache_' = ReleaseResult(cache_, kernel, isOpen, "ok").cache
            /\ fdEvent_' = DeletedNotifier
            /\ isOpen' = FALSE
            /\ kernel' = KernelIdle
            /\ last' = [NoOp EXCEPT !.op = "close"]
    /\ UNCHANGED << caps_, bufferType_, memoryType_, queuedBuffers_, buffers,
                    otherVars >>

\* what "cache_->get()" and "cache_->put()" can do when cache_ is the null
\* pointer, which is undefined behaviour: the access faults and the process
\* ends ("crash"), or it reads or writes whatever lies at that address and
\* the function goes on ("wild")
NullCacheOutcomes == {"crash", "wild"}

\* V4L2VideoDevice::queueBuffer(buffer) while cache_ is nullptr: its first
\* statement is "ret = cache_->get(*buffer)". A wild read finds no entry
\* and the function returns -ENOENT.
QueueBufferNullCache(b, ub) ==
    /\ Opened
    /\ ~cache_.exists
    /\ ub \in NullCacheOutcomes
    /\ bufferReady' = << >>
    /\ last' = [NoOp EXCEPT !.op = "queueBuffer", !.buffer = b,
                            !.ret = -ENOENT, !.outcome = ub]
    /\ UNCHANGED << cache_, kernel, fdEvent_, queuedBuffers_, caps_, isOpen,
                    bufferType_, memoryType_, buffers, otherVars >>

\* V4L2VideoDevice::dequeueBuffer() while cache_ is nullptr and the driver
\* holds a completed buffer: VIDIOC_DQBUF succeeds and hands the buffer
\* over, then "cache_->put(buf.index)" is executed. After a wild write the
\* function goes on as usual: the entry leaves the map and the buffer is
\* stamped and returned. emit is as for Dequeue.
DequeueNullCache(op, emit, ub) ==
    /\ Opened
    /\ ~cache_.exists
    /\ kernel.done # << >>
    /\ ub \in NullCacheOutcomes
    /\ LET buf == Head(kernel.done)
           buffer == queuedBuffers_[buf.index]
           status == FrameStatus(buf.error)
       IN  /\ buf.index \in DOMAIN queuedBuffers_
           /\ kernel' = [kernel EXCEPT !.done = Tail(@),
                                       !.queued = @ \ {buf.index},
                                       !.owner = MapErase(@, buf.index)]
           /\ IF ub = "crash"
              THEN /\ last' = [NoOp EXCEPT !.op = op, !.index = buf.index,
                                           !.outcome = ub]
                   /\ bufferReady' = << >>
                   /\ UNCHANGED << queuedBuffers_, fdEvent_ >>
              ELSE /\ queuedBuffers_' = MapErase(queuedBuffers_, buf.index)
                   /\ fdEvent_' = NotifierAfterDequeue(
                                      MapErase(queuedBuffers_, buf.index),
                                      fdEvent_)
                   /\ last' = [NoOp EXCEPT !.op = op, !.buffer = buffer,
                                           !.index = buf.index,
                                           !.hit = buf.error,
                                           !.status = status,
                                           !.outcome = ub]
                   /\ bufferReady' = IF emit
                                     THEN EmitBufferReady(buffer, status)
                                     ELSE << >>
    /\ UNCHANGED << cache_, caps_, isOpen, bufferType_, memoryType_, buffers,
                    otherVars >>

\* one more step of a behaviour of at most MaxSteps steps
Tick ==
    /\ nops < MaxSteps
    /\ nops' = nops + 1
    /\ UNCHANGED pipelineVars

\* exportBuffers is handed an empty vector: once the caller holds exported
\* buffers the next allocations are imports
NextLifecycle ==
    \/ \E deviceOpens, queryFails \in BOOLEAN :
          Open(deviceOpens, queryFails) /\ Tick
    \/ \E count \in 0..MaxCount, outcome \in {"ok", "reqbufs", "fewer"} :
          /\ cache_.exists => (count = 0 /\ outcome = "ok")
          /\ ImportBuffers(count, outcome)
          /\ Tick
    \/ \E count \in 0..MaxCount, outcome \in Outcomes :
          /\ cache_.exists => (count = 0 /\ outcome = "ok")
          /\ buffers = << >>
          /\ ExportBuffers(count, outcome)
          /\ Tick
    \/ \E b \in DevBuffers, qbufFails \in BOOLEAN :
          QueueBuffer(b, qbufFails) /\ Tick
    \/ \E index \in 0..(MaxCount - 1), error \in BOOLEAN :
          DriverCompletes(index, error) /\ Tick
    \/ DequeueBuffer /\ Tick
    \/ BufferAvailable /\ Tick
    \/ \E fails \in BOOLEAN : StreamOn(fails) /\ Tick
    \/ \E fails \in BOOLEAN : StreamOff(fails) /\ Tick
    \/ \E outcome \in {"ok", "reqbufs"} : ReleaseBuffers(outcome) /\ Tick
    \/ Close /\ Tick

SpecLifecycle == DevInit /\ [][NextLifecycle]_vars

(***************************************************************************)
(* open() on device nodes of every capability set: the node is opened,     *)
(* closed and opened again.                                                *)
(***************************************************************************)
\* the capability flags a node may advertise; READWRITE is a flag open()
\* does not look at
Capabilities ==
    {"STREAMING", "READWRITE", "VIDEO_CAPTURE", "VIDEO_CAPTURE_MPLANE",
     "VIDEO_OUTPUT", "VIDEO_OUTPUT_MPLANE", "META_CAPTURE", "META_OUTPUT"}

OpenInit ==
    /\ cache_ = NoCache
    /\ last = NoOp
    /\ nops = 0
    /\ numGets = 0
    /\ numPuts = 0
    /\ numPutsBound = 0
    /\ released = {}
    /\ pool = {}
    /\ held = [b \in {} |-> -1]
    /\ firstIndex = [b \in {} |-> -1]
    /\ caps_ \in SUBSET Capabilities
    /\ Constructed

NextOpen ==
    \/ \E deviceOpens, queryFails \in BOOLEAN :
          Open(deviceOpens, queryFails) /\ UNCHANGED << nops, pipelineVars >>
    \/ Close /\ UNCHANGED << nops, pipelineVars >>

SpecOpen == OpenInit /\ [][NextOpen]_vars

(***************************************************************************)
(* getFormat and setFormat. The caller's V4L2DeviceFormat has a size, a    *)
(* fourcc, a plane count and three plane slots; the driver keeps the       *)
(* v4l2_format it applied, in the layout of the node's variant:            *)
(* v4l2_pix_format, v4l2_pix_format_mplane or v4l2_meta_format.            *)
(***************************************************************************)
\* the device nodes whose formats are set and read: one per variant
FormatCaps ==
    { {"STREAMING", "VIDEO_CAPTURE"},
      {"STREAMING", "VIDEO_OUTPUT_MPLANE"},
      {"STREAMING", "META_CAPTURE"} }

Widths == {16, 32}
Height == 8
Fourccs == {1, 2}
Strides == {16, 32}
PlaneCounts == {1, 2}

PlaneFmt(bpl, size) == [bpl |-> bpl, size |-> size]

\* a V4L2DeviceFormat
DeviceFormat(width, height, fourcc, planesCount, fmtPlanes) ==
    [variant |-> "V4L2DeviceFormat",
     size |-> [width |-> width, height |-> height],
     fourcc |-> fourcc, planesCount |-> planesCount, planes |-> fmtPlanes]

\* a V4L2DeviceFormat the caller has just created
FreshFormat ==
    DeviceFormat(0, 0, 0, 0, << PlaneFmt(0, 0), PlaneFmt(0, 0), PlaneFmt(0, 0) >>)

\* the formats callers ask for
RequestedFormats ==
    { DeviceFormat(w, Height, f, n,
                   << PlaneFmt(b, b * Height), PlaneFmt(b, b * Height),
                      PlaneFmt(0, 0) >>) :
        w \in Widths, f \in Fourccs, n \in PlaneCounts, b \in Strides }

\* getFormat() and setFormat(): the variant the capabilities select
GetVariant(c) ==
    IF isMeta(c) THEN "meta"
    ELSE IF isMultiplanar(c) THEN "multiplane"
    ELSE "singleplane"
SetVariant(c) ==
    IF isMeta(c) THEN "meta"
    ELSE IF isMultiplanar(c) THEN "multiplane"
    ELSE "singleplane"

\* the format a node has before any VIDIOC_S_FMT
DriverDefault(variant) ==
    IF variant = "meta"
    THEN [variant |-> "meta", dataformat |-> 1, buffersize |-> 128]
    ELSE IF variant = "multiplane"
    THEN [variant |-> "multiplane", width |-> 16, height |-> Height,
          pixelformat |-> 1, num_planes |-> 1,
          plane_fmt |-> << [bytesperline |-> 16, sizeimage |-> 128],
                           [bytesperline |-> 0, sizeimage |-> 0],
                           [bytesperline |-> 0, sizeimage |-> 0] >>]
    ELSE [variant |-> "singleplane", width |-> 16, height |-> Height,
          pixelformat |-> 1, bytesperline |-> 16, sizeimage |-> 128]

\* the v4l2_format the three setFormat functions pass to VIDIOC_S_FMT; the
\* structure is zeroed first
SetRequestMeta(fmt) ==
    [variant |-> "meta", dataformat |-> fmt.fourcc,
     buffersize |-> fmt.planes[1].size]
SetRequestMultiplane(fmt) ==
    [variant |-> "multiplane", width |-> fmt.size.width,
     height |-> fmt.size.height, pixelformat |-> fmt.fourcc,
     num_planes |-> fmt.planesCount,
     plane_fmt |-> [i \in 1..3 |->
                      IF i <= fmt.planesCount
                      THEN [bytesperline |-> fmt.planes[i].bpl,
                            sizeimage |-> fmt.planes[i].size]
                      ELSE [bytesperline |-> 0, sizeimage |-> 0]]]
SetRequestSingleplane(fmt) ==
    [variant |-> "singleplane", width |-> fmt.size.width,
     height |-> fmt.size.height, pixelformat |-> fmt.fourcc,
     bytesperline |-> fmt.planes[1].bpl, sizeimage |-> 0]
SetRequest(variant, fmt) ==
    IF variant = "meta" THEN SetRequestMeta(fmt)
    ELSE IF variant = "multiplane" THEN SetRequestMultiplane(fmt)
    ELSE SetRequestSingleplane(fmt)

\* a driver that applies the request as it is: the single-plane request
\* carries no image size, which the driver computes
DriverStores(sent) ==
    IF sent.variant = "singleplane"
    THEN [sent EXCEPT !.sizeimage = sent.bytesperline * sent.height]
    ELSE sent

\* the formats the driver may apply and report for a request: the request
\* as it is or with one of its fields adjusted
DriverApplies(sent) ==
    LET stored == DriverStores(sent)
    IN  IF sent.variant = "meta"
        THEN {stored}
             \cup {[stored EXCEPT !.dataformat = f] : f \in Fourccs}
             \cup {[stored EXCEPT !.buffersize = z] : z \in {128, 256}}
        ELSE IF sent.variant = "multiplane"
        THEN {stored}
             \cup {[stored EXCEPT !.width = w] : w \in Widths}
             \cup {[stored EXCEPT !.pixelformat = f] : f \in Fourccs}
             \cup {[stored EXCEPT !.num_planes = n,
                                  !.plane_fmt[2] =
                                      IF n = 2 THEN stored.plane_fmt[1]
                                      ELSE [bytesperline |-> 0,
                                            sizeimage |-> 0]] :
                       n \in PlaneCounts}
             \cup {[stored EXCEPT !.plane_fmt[1] =
                                      [bytesperline |-> b,
                                       sizeimage |-> b * Height]] :
                       b \in Strides}
        ELSE {stored}
             \cup {[stored EXCEPT !.width = w] : w \in Widths}
             \cup {[stored EXCEPT !.pixelformat = f] : f \in Fourccs}
             \cup {[stored EXCEPT !.bytesperline = b,
                                  !.sizeimage = b * Height] : b \in Strides}

\* variant of getFormatSingleplane that reports the stride as the size
getFormatSingleplaneStride(fmt, pix) ==
    [fmt EXCEPT !.size = [width |-> pix.width, height |-> pix.height],
                !.fourcc = pix.pixelformat,
                !.planesCount = 1,
                !.planes[1] = PlaneFmt(pix.bytesperline, pix.bytesperline)]

\* getFormatMeta, getFormatMultiplane, getFormatSingleplane after a
\* successful VIDIOC_G_FMT that returned pix: the caller's format
getFormatMeta(fmt, pix) ==
    [fmt EXCEPT !.size = [width |-> 0, height |-> 0],
                !.fourcc = pix.dataformat,
                !.planesCount = 1,
                !.planes[1] = PlaneFmt(pix.buffersize, pix.buffersize)]
getFormatMultiplane(fmt, pix) ==
    [fmt EXCEPT !.size = [width |-> pix.width, height |-> pix.height],
                !.fourcc = pix.pixelformat,
                !.planesCount = pix.num_planes,
                !.planes = [i \in 1..3 |->
                              IF i <= pix.num_planes
                              THEN PlaneFmt(pix.plane_fmt[i].bytesperline,
                                            pix.plane_fmt[i].sizeimage)
                              ELSE fmt.planes[i]]]
getFormatSingleplane(fmt, pix) ==
    [fmt EXCEPT !.size = [width |-> pix.width, height |-> pix.height],
                !.fourcc = pix.pixelformat,
                !.planesCount = 1,
                !.planes[1] = PlaneFmt(pix.bytesperline, pix.sizeimage)]

\* setFormatMeta, setFormatMultiplane, setFormatSingleplane after a
\* successful VIDIOC_S_FMT that left pix in the structure: the caller's
\* format. setFormatMeta assigns the fourcc to itself.
setFormatMeta(fmt, pix) ==
    [fmt EXCEPT !.size = [width |-> 0, height |-> 0],
                !.fourcc = fmt.fourcc,
                !.planesCount = 1,
                !.planes[1] = PlaneFmt(pix.buffersize, pix.buffersize)]
setFormatMultiplane(fmt, pix) ==
    [fmt EXCEPT !.size = [width |-> pix.width, height |-> pix.height],
                !.fourcc = pix.pixelformat,
                !.planesCount = pix.num_planes,
                !.planes = [i \in 1..3 |->
                              IF i <= pix.num_planes
                              THEN PlaneFmt(pix.plane_fmt[i].bytesperline,
                                            pix.plane_fmt[i].sizeimage)
                              ELSE fmt.planes[i]]]
setFormatSingleplane(fmt, pix) ==
    [fmt EXCEPT !.size = [width |-> pix.width, height |-> pix.height],
                !.fourcc = pix.pixelformat,
                !.planesCount = 1,
                !.planes[1] = PlaneFmt(pix.bytesperline, pix.sizeimage)]

FormatInit ==
    /\ cache_ = NoCache
    /\ last = NoOp
    /\ nops = 0
    /\ numGets = 0
    /\ numPuts = 0
    /\ numPutsBound = 0
    /\ released = {}
    /\ pool = {}
    /\ held = [b \in {} |-> -1]
    /\ firstIndex = [b \in {} |-> -1]
    /\ caps_ \in FormatCaps
    /\ DeviceConstructed
    /\ format = FreshFormat
    /\ driverFormat = DriverDefault(SetVariant(caps_))
    /\ queuedRequests_ = << >>
    /\ pendingBuffers = << >>
    /\ completedRequests = << >>
    /\ conversion = NoFourcc
    /\ pads_ = << >>
    /\ lookup = NoLookup
    /\ ExtIdle

\* V4L2VideoDevice::setFormat(format) with the caller's format set to
\* requested; reported is what VIDIOC_S_FMT leaves in the structure
SetFormat(requested, reported, fails) ==
    /\ Opened
    /\ LET variant == SetVariant(caps_)
           sent == SetRequest(variant, requested)
       IN  /\ reported \in DriverApplies(sent)
           /\ IF fails
              THEN /\ reported = DriverStores(sent)
                   /\ format' = requested
                   /\ last' = [NoOp EXCEPT !.op = "setFormat", !.ret = -EINVAL]
                   /\ UNCHANGED driverFormat
              ELSE /\ driverFormat' = reported
                   /\ format' = IF variant = "meta"
                                THEN setFormatMeta(requested, reported)
                                ELSE IF variant = "multiplane"
                                THEN setFormatMultiplane(requested, reported)
                                ELSE setFormatSingleplane(requested, reported)
                   /\ last' = [NoOp EXCEPT
                                  !.op = "setFormat",
                                  !.outcome = IF reported = DriverStores(sent)
                                              THEN "stored" ELSE "adjusted"]
    /\ bufferReady' = << >>
    /\ UNCHANGED << cache_, nops, pipelineVars, conversion, padVars, extVars,
                    countVars,
                    poolVars, caps_, isOpen, fdEvent_,
                    bufferType_, memoryType_, queuedBuffers_, buffers, kernel >>

\* V4L2VideoDevice::getFormat(format), called with the format object of the
\* last call
GetFormat(fails) ==
    /\ Opened
    /\ LET variant == GetVariant(caps_)
       IN  IF fails
           THEN /\ last' = [NoOp EXCEPT !.op = "getFormat", !.ret = -EINVAL]
                /\ UNCHANGED format
           ELSE /\ format' = IF variant = "meta"
                             THEN getFormatMeta(format, driverFormat)
                             ELSE IF variant = "multiplane"
                             THEN getFormatMultiplane(format, driverFormat)
                             ELSE getFormatSingleplane(format, driverFormat)
                /\ last' = [NoOp EXCEPT !.op = "getFormat"]
    /\ bufferReady' = << >>
    /\ UNCHANGED << cache_, nops, pipelineVars, conversion, padVars, extVars,
                    countVars,
                    poolVars, caps_, isOpen, fdEvent_,
                    bufferType_, memoryType_, queuedBuffers_, buffers, kernel,
                    driverFormat >>

NextFormat ==
    \/ \E deviceOpens, queryFails \in BOOLEAN :
          Open(deviceOpens, queryFails) /\ UNCHANGED << nops, pipelineVars >>
    \/ \E requested \in RequestedFormats, fails \in BOOLEAN :
          \E reported \in DriverApplies(SetRequest(SetVariant(caps_), requested)) :
             SetFormat(requested, reported, fails)
    \/ \E fails \in BOOLEAN : GetFormat(fails)

SpecFormat == FormatInit /\ [][NextFormat]_vars

(***************************************************************************)
(* The Raspberry Pi pipeline handler on its capture device (unicam).       *)
(* RPiCameraData::sensorReady is connected to the device's bufferReady     *)
(* signal, so it runs inside the device call that emits: bufferAvailable   *)
(* and streamOff. PipelineHandler::queueRequest, completeBuffer and        *)
(* completeRequest are the framework's: queueRequest appends the request   *)
(* to the camera's FIFO and calls queueRequestDevice, completeBuffer       *)
(* records the buffer as done and tells whether it was the request's last  *)
(* outstanding buffer, completeRequest removes the request from the FIFO   *)
(* and hands it to the application. A request holds the buffer of the      *)
(* camera's stream and possibly a buffer of a second stream.               *)
(***************************************************************************)
\* request r holds buffer r of the camera's stream; its buffer on a second
\* stream, when it has one
Requests == DevBuffers
OtherBuffer(r) == r + NumDevBuffers
\* FrameBuffer::request()
RequestOf(buffer) == buffer

\* the buffers of a request
BuffersOf(r, twoStreams) ==
    IF twoStreams THEN {r, OtherBuffer(r)} ELSE {r}

\* the handler's view: the FIFO, the outstanding buffers and the requests
\* handed back
PipelineState ==
    [fifo |-> queuedRequests_, pending |-> pendingBuffers,
     completed |-> completedRequests]

\* PipelineHandler::completeBuffer(camera, request, buffer)
completeBuffer(st, request, buffer) ==
    LET pending == [st.pending EXCEPT ![request] = @ \ {buffer}]
    IN  [state |-> [st EXCEPT !.pending = pending],
         allDone |-> pending[request] = {}]

\* PipelineHandler::completeRequest(camera, request); the record kept of the
\* call tells whether buffers of the request were still outstanding
completeRequest(st, request) ==
    [st EXCEPT
        !.fifo = SelectSeq(@, LAMBDA q : q # request),
        !.completed = Append(@, [request |-> request,
                                 outstanding |-> st.pending[request]])]

\* RPiCameraData::sensorReady(buffer): completeBuffer, then completeRequest
sensorReady(st, buffer) ==
    LET request == RequestOf(buffer)
    IN  completeRequest(completeBuffer(st, request, buffer).state, request)

\* the slot called for each emission of bufferReady, in order
RECURSIVE SensorReadyAll(_, _)
SensorReadyAll(st, emissions) ==
    IF emissions = << >>
    THEN st
    ELSE SensorReadyAll(sensorReady(st, Head(emissions).buffer),
                        Tail(emissions))

\* the handler's state after the slots of this step's emissions have run
AfterEmissions(emissions) ==
    LET st == SensorReadyAll(PipelineState, emissions)
    IN  /\ queuedRequests_' = st.fifo
        /\ pendingBuffers' = st.pending
        /\ completedRequests' = st.completed

PipelineInit ==
    /\ cache_ = NoCache
    /\ last = NoOp
    /\ nops = 0
    /\ numGets = 0
    /\ numPuts = 0
    /\ numPutsBound = 0
    /\ released = {}
    /\ pool = {}
    /\ held = [b \in {} |-> -1]
    /\ firstIndex = [b \in {} |-> -1]
    /\ caps_ = {"STREAMING", "VIDEO_CAPTURE"}
    /\ Constructed

\* PipelineHandler::queueRequest(camera, request) for a request that is not
\* queued: the request enters the FIFO, then
\* PipelineHandlerRPi::queueRequestDevice hands the buffer of the camera's
\* stream to unicam_->queueBuffer
QueueRequest(r, twoStreams, qbufFails) ==
    /\ r \notin DOMAIN pendingBuffers
    /\ QueueBuffer(r, qbufFails)
    /\ queuedRequests_' = Append(queuedRequests_, r)
    /\ pendingBuffers' = MapInsert(pendingBuffers, r,
                                   BuffersOf(r, twoStreams))
    /\ UNCHANGED << nops, completedRequests >>

\* the event loop activates the notifier: bufferAvailable emits bufferReady
\* for the buffer dequeued and sensorReady runs
BufferReady ==
    /\ BufferAvailable
    /\ AfterEmissions(bufferReady')
    /\ UNCHANGED nops

\* PipelineHandlerRPi::stop(camera): unicam_->streamOff(), whose result is
\* not looked at, with sensorReady run for each buffer it cancels; then
\* rawBuffers_, which is never filled, is cleared
Stop(fails) ==
    /\ StreamOff(fails)
    /\ AfterEmissions(bufferReady')
    /\ UNCHANGED nops

NextPipeline ==
    \/ \E deviceOpens, queryFails \in BOOLEAN :
          Open(deviceOpens, queryFails) /\ UNCHANGED << nops, pipelineVars >>
    \/ \E count \in 0..MaxCount, outcome \in {"ok", "reqbufs", "fewer"} :
          /\ cache_.exists => (count = 0 /\ outcome = "ok")
          /\ ImportBuffers(count, outcome)
          /\ UNCHANGED << nops, pipelineVars >>
    \/ \E fails \in BOOLEAN :
          StreamOn(fails) /\ UNCHANGED << nops, pipelineVars >>
    \/ \E r \in Requests, twoStreams, qbufFails \in BOOLEAN :
          QueueRequest(r, twoStreams, qbufFails)
    \/ \E index \in 0..(MaxCount - 1), error \in BOOLEAN :
          DriverCompletes(index, error) /\ UNCHANGED << nops, pipelineVars >>
    \/ BufferReady
    \/ \E fails \in BOOLEAN : Stop(fails)

SpecPipeline == PipelineInit /\ [][NextPipeline]_vars

(***************************************************************************)
(* toV4L2Fourcc. A four-character code is the 32-bit little-endian number  *)
(* of its characters, for the DRM formats and for the V4L2 formats alike.  *)
(***************************************************************************)
\* the character codes of the letters and digits the formats use
Ord ==
    [c \in {"0", "1", "2", "3", "4", "5", "6", "A", "B", "G", "J", "M", "N",
            "P", "R", "U", "V", "Y"} |->
        CASE c = "0" -> 48 [] c = "1" -> 49 [] c = "2" -> 50 [] c = "3" -> 51
          [] c = "4" -> 52 [] c = "5" -> 53 [] c = "6" -> 54 [] c = "A" -> 65
          [] c = "B" -> 66 [] c = "G" -> 71 [] c = "J" -> 74 [] c = "M" -> 77
          [] c = "N" -> 78 [] c = "P" -> 80 [] c = "R" -> 82 [] c = "U" -> 85
          [] c = "V" -> 86 [] c = "Y" -> 89]

\* fourcc_code(a, b, c, d) and v4l2_fourcc(a, b, c, d)
FourCC(a, b, c, d) ==
    Ord[a] + Ord[b] * 256 + Ord[c] * 65536 + Ord[d] * 16777216

\* the DRM_FORMAT_* codes of the PixelFormats; RGB565 and INVALID are formats
\* toV4L2Fourcc has no case for
DRM_FORMAT ==
    [BGR888 |-> FourCC("B", "G", "2", "4"),
     RGB888 |-> FourCC("R", "G", "2", "4"),
     BGRA8888 |-> FourCC("B", "A", "2", "4"),
     YUYV |-> FourCC("Y", "U", "Y", "V"),
     YVYU |-> FourCC("Y", "V", "Y", "U"),
     UYVY |-> FourCC("U", "Y", "V", "Y"),
     VYUY |-> FourCC("V", "Y", "U", "Y"),
     NV16 |-> FourCC("N", "V", "1", "6"),
     NV61 |-> FourCC("N", "V", "6", "1"),
     NV12 |-> FourCC("N", "V", "1", "2"),
     NV21 |-> FourCC("N", "V", "2", "1"),
     MJPEG |-> FourCC("M", "J", "P", "G"),
     RGB565 |-> FourCC("R", "G", "1", "6"),
     INVALID |-> 0]

\* the V4L2_PIX_FMT_* codes; NV16M, NV61M, NV12M and NV21M are the variants
\* with non-contiguous planes
V4L2_PIX_FMT ==
    [RGB24 |-> FourCC("R", "G", "B", "3"),
     BGR24 |-> FourCC("B", "G", "R", "3"),
     ARGB32 |-> FourCC("B", "A", "2", "4"),
     YUYV |-> FourCC("Y", "U", "Y", "V"),
     YVYU |-> FourCC("Y", "V", "Y", "U"),
     UYVY |-> FourCC("U", "Y", "V", "Y"),
     VYUY |-> FourCC("V", "Y", "U", "Y"),
     NV16 |-> FourCC("N", "V", "1", "6"),
     NV61 |-> FourCC("N", "V", "6", "1"),
     NV12 |-> FourCC("N", "V", "1", "2"),
     NV21 |-> FourCC("N", "V", "2", "1"),
     MJPEG |-> FourCC("M", "J", "P", "G"),
     NV16M |-> FourCC("N", "M", "1", "6"),
     NV61M |-> FourCC("N", "M", "6", "1"),
     NV12M |-> FourCC("N", "M", "1", "2"),
     NV21M |-> FourCC("N", "M", "2", "1")]

SupportedFormats ==
    {DRM_FORMAT.BGR888, DRM_FORMAT.RGB888, DRM_FORMAT.BGRA8888,
     DRM_FORMAT.YUYV, DRM_FORMAT.YVYU, DRM_FORMAT.UYVY, DRM_FORMAT.VYUY,
     DRM_FORMAT.NV16, DRM_FORMAT.NV61, DRM_FORMAT.NV12, DRM_FORMAT.NV21,
     DRM_FORMAT.MJPEG}
PixelFormats == SupportedFormats \cup {DRM_FORMAT.RGB565, DRM_FORMAT.INVALID}

\* V4L2VideoDevice::toV4L2Fourcc(pixelFormat, multiplanar): the switch; no
\* case looks at multiplanar
toV4L2Fourcc(pixelFormat, multiplanar) ==
    CASE pixelFormat = DRM_FORMAT.BGR888 -> V4L2_PIX_FMT.RGB24
      [] pixelFormat = DRM_FORMAT.RGB888 -> V4L2_PIX_FMT.BGR24
      [] pixelFormat = DRM_FORMAT.BGRA8888 -> V4L2_PIX_FMT.ARGB32
      [] pixelFormat = DRM_FORMAT.YUYV -> V4L2_PIX_FMT.YUYV
      [] pixelFormat = DRM_FORMAT.YVYU -> V4L2_PIX_FMT.YVYU
      [] pixelFormat = DRM_FORMAT.UYVY -> V4L2_PIX_FMT.UYVY
      [] pixelFormat = DRM_FORMAT.VYUY -> V4L2_PIX_FMT.VYUY
      [] pixelFormat = DRM_FORMAT.NV16 -> V4L2_PIX_FMT.NV16
      [] pixelFormat = DRM_FORMAT.NV61 -> V4L2_PIX_FMT.NV61
      [] pixelFormat = DRM_FORMAT.NV12 -> V4L2_PIX_FMT.NV12
      [] pixelFormat = DRM_FORMAT.NV21 -> V4L2_PIX_FMT.NV21
      [] pixelFormat = DRM_FORMAT.MJPEG -> V4L2_PIX_FMT.MJPEG
      [] OTHER -> 0

FourccInit ==
    /\ cache_ = NoCache
    /\ last = NoOp
    /\ nops = 0
    /\ numGets = 0
    /\ numPuts = 0
    /\ numPutsBound = 0
    /\ released = {}
    /\ pool = {}
    /\ held = [b \in {} |-> -1]
    /\ firstIndex = [b \in {} |-> -1]
    /\ caps_ \in SUBSET Capabilities
    /\ Constructed

\* the parts of the state a conversion leaves alone
FourccUnchanged ==
    UNCHANGED << cache_, last, nops, countVars, poolVars, caps_, isOpen,
                 fdEvent_, bufferType_, memoryType_, queuedBuffers_, buffers,
                 bufferReady, kernel, formatVars, pipelineVars, padVars,
                 extVars >>

\* the static V4L2VideoDevice::toV4L2Fourcc(pixelFormat, multiplanar)
ToV4L2FourccStatic(pixelFormat, multiplanar) ==
    /\ conversion' = [pixelFormat |-> pixelFormat, multiplanar |-> multiplanar,
                  v4l2 |-> toV4L2Fourcc(pixelFormat, multiplanar),
                  called |-> TRUE]
    /\ FourccUnchanged

\* V4L2VideoDevice::toV4L2Fourcc(pixelFormat) on a device: multiplanar is
\* caps_.isMultiplanar()
ToV4L2Fourcc(pixelFormat) ==
    /\ conversion' = [pixelFormat |-> pixelFormat,
                  multiplanar |-> isMultiplanar(caps_),
                  v4l2 |-> toV4L2Fourcc(pixelFormat, isMultiplanar(caps_)),
                  called |-> TRUE]
    /\ FourccUnchanged

NextFourcc ==
    \/ \E pixelFormat \in PixelFormats, multiplanar \in BOOLEAN :
          ToV4L2FourccStatic(pixelFormat, multiplanar)
    \/ \E pixelFormat \in PixelFormats : ToV4L2Fourcc(pixelFormat)

SpecFourcc == FourccInit /\ [][NextFourcc]_vars

(***************************************************************************)
(* MediaEntity: the pad list and the two pad lookups. A pad is an object   *)
(* with an id and an index; addPad checks neither, so pads of one entity   *)
(* may share them.                                                         *)
(***************************************************************************)
PadIds == {1, 2}
PadIndexes == {0, 1}

\* variant of PadScan that goes through the list from its end
RECURSIVE PadScanFromEnd(_, _, _, _)
PadScanFromEnd(list, n, field, value) ==
    IF Len(list) - n + 1 < 1
    THEN NoPad
    ELSE IF list[Len(list) - n + 1][field] = value
    THEN list[Len(list) - n + 1]
    ELSE PadScanFromEnd(list, n + 1, field, value)

\* "for (MediaPad *p : pads_) if (p->field() == value) return p;" from the
\* n-th pad on, then "return nullptr"
RECURSIVE PadScan(_, _, _, _)
PadScan(list, n, field, value) ==
    IF n > Len(list)
    THEN NoPad
    ELSE IF list[n][field] = value
    THEN list[n]
    ELSE PadScan(list, n + 1, field, value)

PadInit ==
    /\ cache_ = NoCache
    /\ last = NoOp
    /\ nops = 0
    /\ numGets = 0
    /\ numPuts = 0
    /\ numPutsBound = 0
    /\ released = {}
    /\ pool = {}
    /\ held = [b \in {} |-> -1]
    /\ firstIndex = [b \in {} |-> -1]
    /\ caps_ = {"STREAMING", "VIDEO_CAPTURE"}
    /\ Constructed

\* the parts of the state the media entity's functions leave alone
PadUnchanged ==
    UNCHANGED << cache_, last, nops, countVars, poolVars, caps_, isOpen,
                 fdEvent_, bufferType_, memoryType_, queuedBuffers_, buffers,
                 bufferReady, kernel, formatVars, pipelineVars, conversion,
                 extVars >>

\* MediaEntity::addPad(pad) with a newly constructed pad
AddPad(id, index) ==
    /\ Len(pads_) < MaxPads
    /\ pads_' = Append(pads_, [obj |-> Len(pads_) + 1, id |-> id,
                               index |-> index])
    /\ lookup' = [op |-> "addPad", arg |-> id, pad |-> NoPad]
    /\ PadUnchanged

\* MediaEntity::getPadByIndex(index)
GetPadByIndex(index) ==
    /\ lookup' = [op |-> "getPadByIndex", arg |-> index,
                  pad |-> PadScan(pads_, 1, "index", index)]
    /\ UNCHANGED pads_
    /\ PadUnchanged

\* MediaEntity::getPadById(id)
GetPadById(id) ==
    /\ lookup' = [op |-> "getPadById", arg |-> id,
                  pad |-> PadScan(pads_, 1, "id", id)]
    /\ UNCHANGED pads_
    /\ PadUnchanged

\* the lookups are also made with an index and an id no pad was given
NextPad ==
    \/ \E id \in PadIds, index \in PadIndexes : AddPad(id, index)
    \/ \E index \in PadIndexes \cup {2} : GetPadByIndex(index)
    \/ \E id \in PadIds \cup {3} : GetPadById(id)

SpecPad == PadInit /\ [][NextPad]_vars

(***************************************************************************)
(* Calls made while the device has no cache: queueBuffer and dequeueBuffer *)
(* before any allocation succeeded and after releaseBuffers. Buffers are   *)
(* imported; a process that has crashed takes no further step.             *)
(***************************************************************************)
TickNoCache ==
    /\ nops < MaxNoCacheSteps
    /\ last.outcome # "crash"
    /\ nops' = nops + 1
    /\ UNCHANGED pipelineVars

NextNoCache ==
    \/ \E deviceOpens, queryFails \in BOOLEAN :
          Open(deviceOpens, queryFails) /\ TickNoCache
    \/ \E count \in 0..MaxCount, outcome \in {"ok", "reqbufs", "fewer"} :
          /\ cache_.exists => (count = 0 /\ outcome = "ok")
          /\ ImportBuffers(count, outcome)
          /\ TickNoCache
    \/ \E b \in DevBuffers, qbufFails \in BOOLEAN :
          QueueBuffer(b, qbufFails) /\ TickNoCache
    \/ \E b \in DevBuffers, ub \in NullCacheOutcomes :
          QueueBufferNullCache(b, ub) /\ TickNoCache
    \/ \E index \in 0..(MaxCount - 1), error \in BOOLEAN :
          DriverCompletes(index, error) /\ TickNoCache
    \/ DequeueBuffer /\ TickNoCache
    \/ BufferAvailable /\ TickNoCache
    \/ \E ub \in NullCacheOutcomes :
          DequeueNullCache("dequeueBuffer", FALSE, ub) /\ TickNoCache
    \/ \E ub \in NullCacheOutcomes :
          /\ fdEvent_.enabled
          /\ DequeueNullCache("bufferAvailable", TRUE, ub)
          /\ TickNoCache
    \/ \E fails \in BOOLEAN : StreamOn(fails) /\ TickNoCache
    \/ \E outcome \in {"ok", "reqbufs"} :
          ReleaseBuffers(outcome) /\ TickNoCache

SpecNoCache == DevInit /\ [][NextNoCache]_vars

\* C11: after a successful queueBuffer the buffer is in the in-flight map
\* under the index the cache returned for it, and the call did not replace
\* an entry the map already held: that index was not in the map and every
\* other entry is kept.
QueueRecordsWithoutOverwrite ==
    [][(last'.op = "queueBuffer" /\ last'.ret = 0) =>
        /\ last'.index \in DOMAIN queuedBuffers_'
        /\ queuedBuffers_'[last'.index] = last'.buffer
        /\ last'.index \notin DOMAIN queuedBuffers_
        /\ \A i \in DOMAIN queuedBuffers_ :
              queuedBuffers_'[i] = queuedBuffers_[i]]_vars

\* C12: a dequeueBuffer that returns a buffer returns, for the completed
\* index i the driver hands back, the buffer that was queued at i; it removes
\* the entry of i and no other from the in-flight map, frees entry i of the
\* cache and no other, and stamps the buffer FrameError when the driver
\* flagged an error and FrameSuccess otherwise.
DequeueReturnsQueuedBuffer ==
    [][(last'.op \in {"dequeueBuffer", "bufferAvailable"} /\ last'.index >= 0) =>
        LET i == last'.index
            done == Head(kernel.done)
        IN  /\ i = done.index
            /\ last'.buffer = kernel.owner[i]
            /\ i \in DOMAIN queuedBuffers_
            /\ DOMAIN queuedBuffers_' = DOMAIN queuedBuffers_ \ {i}
            /\ \A j \in DOMAIN queuedBuffers_' :
                  queuedBuffers_'[j] = queuedBuffers_[j]
            /\ cache_'.entries[i].free
            /\ cache_'.entries[i].planes_ = cache_.entries[i].planes_
            /\ \A j \in DOMAIN cache_.entries :
                  j # i => cache_'.entries[j] = cache_.entries[j]
            /\ last'.status = IF done.error THEN "FrameError"
                              ELSE "FrameSuccess"]_vars

DequeueWitness ==
    /\ last.op = "dequeueBuffer"
    /\ last.index = 1
    /\ last.status = "FrameError"
    /\ DOMAIN queuedBuffers_ = {0}
    /\ cache_.entries[1].free
    /\ ~cache_.entries[0].free

\* C13: queueBuffer on a device whose cache has no free entry returns
\* -ENOENT, issues no VIDIOC_QBUF (the driver's state is unchanged) and
\* leaves the cache entries, the in-flight map and the notifier unchanged.
QueueOnFullCacheIsBackpressure ==
    [][(last'.op = "queueBuffer" /\ Free(cache_) = {}) =>
        /\ last'.ret = -ENOENT
        /\ kernel' = kernel
        /\ cache_'.entries = cache_.entries
        /\ queuedBuffers_' = queuedBuffers_
        /\ fdEvent_' = fdEvent_]_vars

QueueOnFullCacheWitness ==
    /\ last.op = "queueBuffer"
    /\ last.ret = -ENOENT
    /\ CacheSize(cache_.entries) >= 1
    /\ Free(cache_) = {}
    /\ DOMAIN queuedBuffers_ # {}
    /\ fdEvent_.enabled

\* C14: a bufferAvailable wakeup makes one dequeue attempt (at most one
\* completed buffer leaves the driver and at most one entry leaves the map)
\* and emits at most one bufferReady, for the buffer dequeued; when the
\* dequeue yields no buffer nothing is emitted and the cache and the
\* in-flight map are unchanged.
OneCompletionPerWakeup ==
    [][last'.op = "bufferAvailable" =>
        /\ Len(bufferReady') <= 1
        /\ Len(kernel.done) - Len(kernel'.done) <= 1
        /\ Cardinality(DOMAIN queuedBuffers_)
              - Cardinality(DOMAIN queuedBuffers_') <= 1
        /\ last'.index >= 0 =>
              bufferReady' = << [buffer |-> last'.buffer,
                                 status |-> last'.status] >>
        /\ kernel.done = << >> =>
              /\ last'.index = -1
              /\ bufferReady' = << >>
              /\ cache_' = cache_
              /\ queuedBuffers_' = queuedBuffers_]_vars

OneCompletionWitness ==
    /\ last.op = "bufferAvailable"
    /\ Len(bufferReady) = 1
    /\ kernel.done # << >>
    /\ DOMAIN queuedBuffers_ # {}

\* the driver's answers that make exportBuffers fail after VIDIOC_REQBUFS
\* was accepted: fewer buffers granted, VIDIOC_QUERYBUF failing, an
\* impossible plane count, VIDIOC_EXPBUF failing
ExportFailures == {"fewer", "querybuf", "planes", "expbuf"}

AllocateTwiceIsRefused ==
    [][(last'.op \in {"exportBuffers", "importBuffers"} /\ cache_.exists) =>
        /\ last'.ret = -EINVAL
        /\ kernel' = kernel
        /\ cache_' = cache_
        /\ memoryType_' = memoryType_
        /\ buffers' = buffers]_vars

AllocateTwiceWitness ==
    /\ last.op = "importBuffers"
    /\ last.ret = -EINVAL
    /\ cache_.exists
    /\ memoryType_ = "MMAP"
    /\ Len(buffers) = 2
    /\ kernel.nbufs = 2

\* C17: a successful exportBuffers(count) returns count and leaves count
\* FrameBuffers in the vector, the i-th holding the planes of the driver's
\* buffer of index i: as many planes as the driver reports for that buffer
\* on a multi-planar device and exactly one on a single-planar device; the
\* cache created has count entries.
ExportReturnsCountBuffers ==
    [][(last'.op = "exportBuffers" /\ ~cache_.exists /\ last'.ret >= 0) =>
        LET count == last'.index
        IN  /\ last'.ret = count
            /\ Len(buffers') = count
            /\ \A i \in 0..(count - 1) :
                  /\ planes(buffers'[i + 1]) = DriverPlanes(bufferType_, i)
                  /\ Len(planes(buffers'[i + 1]))
                        = IF TypeIsMultiplanar(bufferType_)
                          THEN QueryBuf(bufferType_, i, FALSE).length
                          ELSE 1
            /\ cache_'.exists
            /\ CacheSize(cache_'.entries) = count]_vars

ExportReturnsWitness ==
    /\ last.op = "exportBuffers"
    /\ last.ret = 2
    /\ TypeIsMultiplanar(bufferType_)
    /\ Len(buffers) = 2
    /\ Len(planes(buffers[1])) = 1
    /\ Len(planes(buffers[2])) = 2

\* C18: importBuffers(count) on a device without cache selects dmabuf
\* memory and issues the buffer request only; when it succeeds (returns 0)
\* the driver holds count buffers, no FrameBuffer was created and the cache
\* has exactly count entries, all free; when the request fails the error is
\* returned and no cache exists.
ImportCreatesFreeCache ==
    [][(last'.op = "importBuffers" /\ ~cache_.exists) =>
        /\ memoryType_' = "DMABUF"
        /\ buffers' = buffers
        /\ last'.ret = 0 =>
              /\ kernel'.nbufs = last'.index
              /\ cache_'.exists
              /\ DOMAIN cache_'.entries = 0..(last'.index - 1)
              /\ Free(cache_') = DOMAIN cache_'.entries
              /\ \A i \in DOMAIN cache_'.entries :
                    cache_'.entries[i].planes_ = << >>
        /\ last'.ret # 0 =>
              /\ last'.ret < 0
              /\ last'.outcome \in {"reqbufs", "fewer"}
              /\ cache_' = NoCache]_vars

ImportWitness ==
    /\ last.op = "importBuffers"
    /\ last.ret = 0
    /\ last.index = 2
    /\ memoryType_ = "DMABUF"
    /\ CacheSize(cache_.entries) = 2
    /\ buffers = << >>

\* the members of the device and the driver's state
deviceState ==
    << cache_, kernel, isOpen, fdEvent_, bufferType_, memoryType_,
       queuedBuffers_, buffers >>

\* C19 (as stated): from any state releaseBuffers leaves no cache and the
\* device unallocated, a second releaseBuffers in a row changes nothing, and
\* releaseBuffers on an unallocated device changes no device state.
ReleaseLeavesUnallocated ==
    [][last'.op = "releaseBuffers" =>
        /\ cache_' = NoCache
        /\ kernel'.nbufs = 0
        /\ (last.op = "releaseBuffers" /\ last.outcome = last'.outcome) =>
              /\ deviceState' = deviceState
              /\ last'.ret = last.ret
        /\ (~cache_.exists /\ kernel.nbufs = 0) =>
              deviceState' = deviceState]_vars

\* C19 (amended): from any state releaseBuffers leaves no cache and, when it
\* returns 0, the device unallocated; a second releaseBuffers in a row that
\* gets the same answer from the driver changes nothing and returns the
\* same value; releaseBuffers on an unallocated device changes no device
\* state.
ReleaseIsIdempotent ==
    [][last'.op = "releaseBuffers" =>
        /\ cache_' = NoCache
        /\ last'.ret = 0 =>
              /\ kernel'.nbufs = 0
              /\ kernel'.queued = {}
        /\ (last.op = "releaseBuffers" /\ last.outcome = last'.outcome) =>
              /\ deviceState' = deviceState
              /\ last'.ret = last.ret
        /\ (~cache_.exists /\ kernel.nbufs = 0) =>
              deviceState' = deviceState]_vars

ReleaseWitness ==
    /\ last.op = "releaseBuffers"
    /\ last.ret = 0
    /\ isOpen
    /\ ~cache_.exists
    /\ kernel.nbufs = 0
    /\ memoryType_ = "DMABUF"
    /\ DOMAIN queuedBuffers_ # {}

\* C20: the device goes from open to closed only when it is stopped and no
\* buffer is in flight, it goes from closed to open only by open(), and the
\* driver starts streaming only by streamOn() and stops only by streamOff().
ValidModeTransitions ==
    [][/\ (isOpen /\ ~isOpen') =>
              /\ last'.op = "close"
              /\ ~kernel.streaming
              /\ DOMAIN queuedBuffers_ = {}
       /\ (~isOpen /\ isOpen') => last'.op = "open"
       /\ (~kernel.streaming /\ kernel'.streaming) => last'.op = "streamOn"
       /\ (kernel.streaming /\ ~kernel'.streaming) => last'.op = "streamOff"]_vars

\* C21: a queueBuffer or dequeueBuffer issued while the device has no cache
\* never accesses the cache, fails (queueBuffer returns an error,
\* dequeueBuffer returns no buffer) and leaves the device state as it was.
NoCacheCallsFailCleanly ==
    [][(~cache_.exists /\ last'.op \in {"queueBuffer", "dequeueBuffer"}) =>
        /\ last'.outcome \notin NullCacheOutcomes
        /\ last'.op = "queueBuffer" => last'.ret < 0
        /\ last'.op = "dequeueBuffer" => last'.buffer = 0
        /\ deviceState' = deviceState]_vars

\* the four device classes: the capability flags and the buffer types of
\* each, and the readiness its notifier watches
DeviceClasses ==
    { [name |-> "video-capture",
       flags |-> {"VIDEO_CAPTURE", "VIDEO_CAPTURE_MPLANE"},
       types |-> {"VIDEO_CAPTURE", "VIDEO_CAPTURE_MPLANE"},
       watch |-> "Read"],
      [name |-> "video-output",
       flags |-> {"VIDEO_OUTPUT", "VIDEO_OUTPUT_MPLANE"},
       types |-> {"VIDEO_OUTPUT", "VIDEO_OUTPUT_MPLANE"},
       watch |-> "Write"],
      [name |-> "meta-capture",
       flags |-> {"META_CAPTURE"},
       types |-> {"META_CAPTURE"},
       watch |-> "Read"],
      [name |-> "meta-output",
       flags |-> {"META_OUTPUT"},
       types |-> {"META_OUTPUT"},
       watch |-> "Write"] }

\* the classes the opened device has been given
ClassesOf(type) == {cls \in DeviceClasses : type \in cls.types}

\* C22: open() returns 0 only for a capability set with streaming I/O that
\* is classified as exactly one of the four classes, a class whose flag the
\* set advertises; every set without streaming I/O or without a flag of any
\* class makes open() return an error. After a successful open the notifier
\* exists, watches read-readiness for the capture classes and
\* write-readiness for the output classes, and is disabled.
OpenClassifiesOrFails ==
    last.op = "open" =>
        /\ last.ret = 0 =>
              /\ "STREAMING" \in caps_
              /\ Cardinality(ClassesOf(bufferType_)) = 1
              /\ \A cls \in ClassesOf(bufferType_) :
                    /\ cls.flags \cap caps_ # {}
                    /\ fdEvent_ = [exists |-> TRUE, type |-> cls.watch,
                                   enabled |-> FALSE]
        /\ ("STREAMING" \notin caps_
              \/ \A cls \in DeviceClasses : cls.flags \cap caps_ = {}) =>
              /\ last.ret < 0
              /\ ~fdEvent_.exists

\* a node advertising both video capture and video output has been opened:
\* it is a video-capture device and its notifier watches read-readiness
OpenWitness ==
    /\ last.op = "open"
    /\ last.ret = 0
    /\ {"VIDEO_CAPTURE", "VIDEO_OUTPUT_MPLANE"} \subseteq caps_
    /\ bufferType_ = "VIDEO_CAPTURE_MPLANE"
    /\ fdEvent_.type = "Read"

\* the planes of a V4L2DeviceFormat that its plane count covers
CountedPlanes(fmt) == [i \in 1..fmt.planesCount |-> fmt.planes[i]]

\* C23: after a successful setFormat every field of the caller's format is
\* the value the device reported back: the size, the fourcc, the plane count
\* and the stride and size of each plane (a single-plane or meta device
\* reports one plane, a meta device no image size).
SetFormatReturnsDeviceFormat ==
    (last.op = "setFormat" /\ last.ret = 0) =>
        /\ driverFormat.variant = "singleplane" =>
              /\ format.size = [width |-> driverFormat.width,
                                height |-> driverFormat.height]
              /\ format.fourcc = driverFormat.pixelformat
              /\ CountedPlanes(format)
                    = << PlaneFmt(driverFormat.bytesperline,
                                  driverFormat.sizeimage) >>
        /\ driverFormat.variant = "multiplane" =>
              /\ format.size = [width |-> driverFormat.width,
                                height |-> driverFormat.height]
              /\ format.fourcc = driverFormat.pixelformat
              /\ format.planesCount = driverFormat.num_planes
              /\ \A i \in 1..driverFormat.num_planes :
                    format.planes[i]
                       = PlaneFmt(driverFormat.plane_fmt[i].bytesperline,
                                  driverFormat.plane_fmt[i].sizeimage)
        /\ driverFormat.variant = "meta" =>
              /\ format.fourcc = driverFormat.dataformat
              /\ CountedPlanes(format)
                    = << PlaneFmt(driverFormat.buffersize,
                                  driverFormat.buffersize) >>

\* C24: on a device that applied the request as it was, a successful
\* getFormat that follows a successful setFormat returns a format equal
\* field by field to the one setFormat returned: same size, fourcc, plane
\* count and counted planes.
SetThenGetRoundTrip ==
    [][(/\ last.op = "setFormat" /\ last.ret = 0 /\ last.outcome = "stored"
        /\ last'.op = "getFormat" /\ last'.ret = 0) =>
          /\ format'.size = format.size
          /\ format'.fourcc = format.fourcc
          /\ format'.planesCount = format.planesCount
          /\ CountedPlanes(format') = CountedPlanes(format)]_vars

\* a two-plane format that is not the node's default has been set and then
\* read back
RoundTripWitness ==
    /\ last.op = "getFormat"
    /\ last.ret = 0
    /\ format.planesCount = 2
    /\ format.fourcc = 2
    /\ format.size.width = 32
    /\ format.planes[2] = PlaneFmt(32, 256)

\* C25: completeRequest is invoked for a request only after completeBuffer
\* has been called for every buffer of the request, that is when none of its
\* buffers is outstanding any more.
RequestCompletesAfterItsBuffers ==
    \A n \in 1..Len(completedRequests) :
        completedRequests[n].outstanding = {}

\* the requests whose buffer is in flight on the capture device
InFlightRequests == {RequestOf(queuedBuffers_[i]) : i \in DOMAIN queuedBuffers_}

\* C26: when stop returns, each request whose buffer was in flight on the
\* capture device has had that buffer completed with cancelled status, has
\* been passed to completeRequest and is no longer in the camera's FIFO.
StopCompletesInFlightRequests ==
    [][last'.op = "streamOff" =>
        \A r \in InFlightRequests :
            /\ \E n \in 1..Len(bufferReady') :
                  bufferReady'[n] = [buffer |-> r, status |-> "FrameCancelled"]
            /\ r \notin pendingBuffers'[r]
            /\ \E n \in 1..Len(completedRequests') :
                  /\ n > Len(completedRequests)
                  /\ completedRequests'[n].request = r
            /\ \A n \in 1..Len(queuedRequests_') : queuedRequests_'[n] # r]_vars

\* the codes with contiguous and with non-contiguous planes of the formats
\* that have both
PlanarCodes ==
    { [drm |-> DRM_FORMAT.NV12, contiguous |-> V4L2_PIX_FMT.NV12,
       separate |-> V4L2_PIX_FMT.NV12M],
      [drm |-> DRM_FORMAT.NV21, contiguous |-> V4L2_PIX_FMT.NV21,
       separate |-> V4L2_PIX_FMT.NV21M],
      [drm |-> DRM_FORMAT.NV16, contiguous |-> V4L2_PIX_FMT.NV16,
       separate |-> V4L2_PIX_FMT.NV16M],
      [drm |-> DRM_FORMAT.NV61, contiguous |-> V4L2_PIX_FMT.NV61,
       separate |-> V4L2_PIX_FMT.NV61M] }

\* C27: toV4L2Fourcc(pixelFormat, multiplanar) returns, for NV12, NV21, NV16
\* and NV61, the code with contiguous planes when multiplanar is false and
\* the code with non-contiguous planes when it is true; for every other
\* supported format a non-zero code that is the same for both values of
\* multiplanar; for an unsupported format 0.
FourccFollowsMultiplanar ==
    conversion.called =>
        /\ \A p \in PlanarCodes :
              conversion.pixelFormat = p.drm =>
                 conversion.v4l2 = IF conversion.multiplanar THEN p.separate
                               ELSE p.contiguous
        /\ (/\ conversion.pixelFormat \in SupportedFormats
            /\ \A p \in PlanarCodes : conversion.pixelFormat # p.drm) =>
              /\ conversion.v4l2 # 0
              /\ conversion.v4l2 = toV4L2Fourcc(conversion.pixelFormat,
                                            ~conversion.multiplanar)
        /\ conversion.pixelFormat \notin SupportedFormats => conversion.v4l2 = 0

\* pad is the first pad of list, in insertion order, whose field equals
\* value, or nullptr when the list has no such pad
IsFirstMatch(list, field, value, pad) ==
    \/ /\ pad = NoPad
       /\ \A n \in 1..Len(list) : list[n][field] # value
    \/ \E n \in 1..Len(list) :
          /\ pad = list[n]
          /\ list[n][field] = value
          /\ \A m \in 1..(n - 1) : list[m][field] # value

\* C28: getPadByIndex(i) and getPadById(id) return the first pad in
\* insertion order whose index, respectively id, equals the argument, and
\* nullptr when there is none; they leave the entity's pad list as it was.
PadLookupReturnsFirstMatch ==
    [][/\ lookup'.op = "getPadByIndex" =>
             /\ IsFirstMatch(pads_, "index", lookup'.arg, lookup'.pad)
             /\ pads_' = pads_
       /\ lookup'.op = "getPadById" =>
             /\ IsFirstMatch(pads_, "id", lookup'.arg, lookup'.pad)
             /\ pads_' = pads_]_vars

\* a lookup by index has returned the first of two pads with that index,
\* which is not the first pad of the list
PadLookupWitness ==
    /\ lookup.op = "getPadByIndex"
    /\ Len(pads_) = 3
    /\ pads_[1].index # lookup.arg
    /\ pads_[2].index = lookup.arg
    /\ pads_[3].index = lookup.arg
    /\ lookup.pad = pads_[2]

\* C29: after a successful streamOff the cache entries that were bound to
\* the cancelled buffers are free again: the bound indices are the in-flight
\* indices, both empty, and a queueBuffer that follows the stop on a cache
\* with entries does not return -ENOENT.
StreamOffFreesCacheEntries ==
    [][/\ (last'.op = "streamOff" /\ last'.ret = 0 /\ cache_'.exists) =>
             /\ Bound(cache_') = DOMAIN queuedBuffers_'
             /\ Bound(cache_') = {}
       /\ (/\ last.op = "streamOff" /\ last.ret = 0
           /\ last'.op = "queueBuffer"
           /\ CacheSize(cache_.entries) > 0) =>
             last'.ret # -ENOENT]_vars

\* C30: when VIDIOC_QBUF fails queueBuffer returns the error and leaves the
\* device as it was before the call: the buffer is not in the in-flight
\* map, the notifier is unchanged and the cache index obtained for the
\* buffer is free again, so the bound entries are those bound before.
FailedQueueRestoresCache ==
    [][(last'.op = "queueBuffer" /\ last'.ret = -EIO) =>
          /\ queuedBuffers_' = queuedBuffers_
          /\ fdEvent_' = fdEvent_
          /\ last'.index \in Free(cache_')
          /\ Bound(cache_') = Bound(cache_)]_vars


\* C31: with exported buffers, in every reachable state the in-flight entry
\* at index i holds the i-th buffer exportBuffers returned, also when a
\* buffer is queued again while it is in flight
ExportedBufferQueuedAtItsIndex ==
    (memoryType_ = "MMAP" /\ cache_.exists /\ buffers # << >>) =>
        \A i \in DOMAIN queuedBuffers_ :
            (\E n \in DOMAIN buffers : buffers[n] = queuedBuffers_[i]) =>
                queuedBuffers_[i] = buffers[i + 1]


(***************************************************************************)
(* The capture device with a bufferReady listener that queues the buffer   *)
(* back: RPiCameraData::ispOutputReady.                                    *)
(***************************************************************************)
\* the members of the device a slot called from inside bufferAvailable or
\* streamOff works on, with the emissions and the listener's calls so far
DeviceState(c, k, queued, notifier) ==
    [cache |-> c, kernel |-> k, queued |-> queued, notifier |-> notifier,
     emitted |-> << >>, calls |-> << >>]

\* V4L2VideoDevice::queueBuffer(buffer) called on the device state st: the
\* state it leaves and, appended to calls, the index taken and the value
\* returned. The driver accepts VIDIOC_QBUF while the stream is stopped.
queueBuffer(st, b, qbufFails) ==
    LET r == CacheGet(st.cache, planes(b))
        call(index, ret) ==
            [buffer |-> b, index |-> index, ret |-> ret, at |-> Len(st.emitted)]
    IN  IF r.ret < 0
        THEN [st EXCEPT !.cache = r.cache,
                        !.calls = Append(@, call(-1, r.ret))]
        ELSE IF qbufFails \/ r.ret \in st.kernel.queued
                \/ r.ret >= st.kernel.nbufs
        THEN [st EXCEPT !.cache = r.cache,
                        !.calls = Append(@, call(r.ret, -EIO))]
        ELSE [st EXCEPT !.cache = r.cache,
                        !.kernel.queued = @ \cup {r.ret},
                        !.kernel.owner = MapInsert(@, r.ret, b),
                        !.notifier = NotifierAfterQueue(st.queued, st.notifier),
                        !.queued = MapInsert(@, r.ret, b),
                        !.calls = Append(@, call(r.ret, 0))]

\* RPiCameraData::ispOutputReady(buffer), the slot of bufferReady:
\* bufferReady.emit(buffer) runs it before it returns
ispOutputReady(st, buffer, status, qbufFails) ==
    queueBuffer([st EXCEPT !.emitted =
                               Append(@, [buffer |-> buffer, status |-> status])],
                buffer, qbufFails)

\* streamOff: for (auto it : queuedBuffers_), from the first key above key.
\* The loop walks the map itself, in key order: an entry the slot inserts
\* above the current key is visited, one inserted below it is not.
RECURSIVE FlushLoop(_, _, _)
FlushLoop(st, key, qbufFails) ==
    LET keys == { i \in DOMAIN st.queued : i > key }
    IN  IF keys = {}
        THEN st
        ELSE FlushLoop(ispOutputReady(st, st.queued[Min(keys)],
                                      "FrameCancelled", qbufFails),
                       Min(keys), qbufFails)

\* V4L2VideoDevice::streamOff() with ispOutputReady connected to bufferReady
StreamOffRequeue(fails, qbufFails) ==
    /\ Opened
    /\ cache_.exists
    /\ cache_.missCounter_ < MaxMiss
    /\ IF fails
       THEN /\ last' = [NoOp EXCEPT !.op = "streamOff", !.ret = -EIO]
            /\ bufferReady' = << >>
            /\ requeued' = << >>
            /\ UNCHANGED << cache_, kernel, queuedBuffers_, fdEvent_ >>
       ELSE LET stopped == [kernel EXCEPT !.streaming = FALSE, !.queued = {},
                                          !.done = << >>, !.owner = << >>]
                st == FlushLoop(DeviceState(cache_, stopped, queuedBuffers_,
                                            fdEvent_),
                                -1, qbufFails)
            IN  /\ cache_' = st.cache
                /\ kernel' = st.kernel
                /\ bufferReady' = st.emitted
                /\ requeued' = st.calls
                /\ queuedBuffers_' = << >>
                /\ fdEvent_' = [st.notifier EXCEPT !.enabled = FALSE]
                /\ last' = [NoOp EXCEPT !.op = "streamOff"]
    /\ UNCHANGED << caps_, isOpen, bufferType_, memoryType_, buffers,
                    countVars, poolVars, formatVars, conversion, padVars,
                    nops, pipelineVars, allocVars, srcVars >>

\* V4L2VideoDevice::bufferAvailable(notifier) with ispOutputReady connected:
\* dequeueBuffer, then the slot queues the buffer returned
BufferAvailableRequeue(qbufFails) ==
    /\ fdEvent_.enabled
    /\ Opened
    /\ cache_.exists
    /\ cache_.missCounter_ < MaxMiss
    /\ IF kernel.done = << >>
       THEN /\ last' = [NoOp EXCEPT !.op = "bufferAvailable"]
            /\ bufferReady' = << >>
            /\ requeued' = << >>
            /\ UNCHANGED << cache_, kernel, queuedBuffers_, fdEvent_ >>
       ELSE LET buf == Head(kernel.done)
                buffer == queuedBuffers_[buf.index]
                erased == MapErase(queuedBuffers_, buf.index)
                dequeued ==
                    DeviceState(CachePut(cache_, buf.index),
                                [kernel EXCEPT !.done = Tail(@),
                                               !.queued = @ \ {buf.index},
                                               !.owner = MapErase(@, buf.index)],
                                erased,
                                NotifierAfterDequeue(erased, fdEvent_))
                st == ispOutputReady(dequeued, buffer, FrameStatus(buf.error),
                                     qbufFails)
            IN  /\ buf.index \in DOMAIN queuedBuffers_
                /\ cache_' = st.cache
                /\ kernel' = st.kernel
                /\ queuedBuffers_' = st.queued
                /\ fdEvent_' = st.notifier
                /\ bufferReady' = st.emitted
                /\ requeued' = st.calls
                /\ last' = [NoOp EXCEPT !.op = "bufferAvailable",
                                        !.buffer = buffer,
                                        !.index = buf.index,
                                        !.hit = buf.error,
                                        !.status = FrameStatus(buf.error)]
    /\ UNCHANGED << caps_, isOpen, bufferType_, memoryType_, buffers,
                    countVars, poolVars, formatVars, conversion, padVars,
                    nops, pipelineVars, allocVars, srcVars >>

NextRequeue ==
    \/ \E deviceOpens, queryFails \in BOOLEAN :
          Open(deviceOpens, queryFails) /\ UNCHANGED << nops, pipelineVars >>
    \/ \E count \in 0..MaxCount, outcome \in {"ok", "reqbufs", "fewer"} :
          /\ cache_.exists => (count = 0 /\ outcome = "ok")
          /\ ImportBuffers(count, outcome)
          /\ UNCHANGED << nops, pipelineVars >>
    \/ \E count \in 0..MaxCount, outcome \in Outcomes :
          /\ cache_.exists => (count = 0 /\ outcome = "ok")
          /\ ExportBuffers(count, outcome)
          /\ UNCHANGED << nops, pipelineVars >>
    \/ \E b \in DevBuffers, qbufFails \in BOOLEAN :
          QueueBuffer(b, qbufFails) /\ UNCHANGED << nops, pipelineVars >>
    \/ \E index \in 0..(MaxCount - 1), error \in BOOLEAN :
          DriverCompletes(index, error) /\ UNCHANGED << nops, pipelineVars >>
    \/ \E fails \in BOOLEAN : StreamOn(fails) /\ UNCHANGED << nops, pipelineVars >>
    \/ \E qbufFails \in BOOLEAN : BufferAvailableRequeue(qbufFails)
    \/ \E fails, qbufFails \in BOOLEAN : StreamOffRequeue(fails, qbufFails)

SpecRequeue == PipelineInit /\ [][NextRequeue]_vars

\* C32: a buffer the listener queues back from inside a bufferReady callback
\* delivered during streamOff's flush is not dropped silently: that
\* queueBuffer is rejected, or the buffer receives a completion after it
RequeuedInFlushIsNotDropped ==
    [][(last'.op = "streamOff" /\ last'.ret = 0) =>
          \A n \in DOMAIN requeued' :
              \/ requeued'[n].ret < 0
              \/ \E e \in DOMAIN bufferReady' :
                    /\ e > requeued'[n].at
                    /\ bufferReady'[e].buffer = requeued'[n].buffer]_vars


\* C33: when VIDIOC_STREAMOFF fails, streamOff returns the error, emits no
\* completion and leaves the in-flight map, the cache and the notifier as
\* they were
FailedStreamOffChangesNothing ==
    [][(last'.op = "streamOff" /\ last'.ret < 0) =>
          /\ bufferReady' = << >>
          /\ queuedBuffers_' = queuedBuffers_
          /\ cache_' = cache_
          /\ fdEvent_' = fdEvent_
          /\ kernel' = kernel]_vars

\* a failed streamOff with a buffer in flight and the notifier enabled
FailedStreamOffWitness ==
    /\ last.op = "streamOff"
    /\ last.ret < 0
    /\ DOMAIN queuedBuffers_ # {}
    /\ fdEvent_.enabled
    /\ kernel.streaming
    /\ Bound(cache_) # {}


\* C34: a failed open() leaves the device closed: after open() returned an
\* error the node is not open and isOpen() is false
FailedOpenLeavesClosed ==
    (last.op = "open" /\ last.ret < 0) => ~isOpen


(***************************************************************************)
(* The GStreamer allocator and buffer pool                                 *)
(* (src/gstreamer/gstlibcameraallocator.cpp, gstlibcamerapool.cpp).        *)
(***************************************************************************)
\* camera->streams(): the first stream gets NumFrames frames, the second one
AllocStreams == {1, 2}
FrameWraps == 1..(NumFrames + 1)
stream_(frame) == IF frame <= NumFrames THEN 1 ELSE 2

\* FrameWrap::buffer_: the first frame wraps a FrameBuffer of two planes
buffer_(frame) ==
    IF frame = 1 THEN 4 ELSE IF frame = 4 THEN 1 ELSE frame

\* FrameWrap::planes_: one GstMemory per plane of the FrameBuffer, named by
\* the frame and the plane number
planes_(frame) ==
    [n \in 1..Len(planes(buffer_(frame))) |-> << frame, n >>]

Memories ==
    UNION { { planes_(f)[n] : n \in DOMAIN planes_(f) } : f \in FrameWraps }

\* the GstBuffer objects gst_libcamera_pool_new creates for a stream's pool,
\* one per frame of the stream
GstBuffersOf(stream) == { g \in FrameWraps : stream_(g) = stream }

GST_FLOW_OK == 0
GST_FLOW_ERROR == -5

\* the frames of a queue in order
RECURSIVE SeqOfSet(_)
SeqOfSet(S) ==
    IF S = {} THEN << >> ELSE << Min(S) >> \o SeqOfSet(S \ {Min(S)})

\* gst_libcamera_allocator_new followed by gst_libcamera_pool_new for each
\* stream: every frame is in its stream's free queue with no plane
\* outstanding, every pool's queue holds pool_size empty GstBuffers
AllocInit ==
    /\ cache_ = NoCache
    /\ last = NoOp
    /\ nops = 0
    /\ numGets = 0
    /\ numPuts = 0
    /\ numPutsBound = 0
    /\ released = {}
    /\ pool = {}
    /\ held = [b \in {} |-> -1]
    /\ firstIndex = [b \in {} |-> -1]
    /\ caps_ = {"STREAMING", "VIDEO_CAPTURE"}
    /\ DeviceConstructed
    /\ format = NoFormat
    /\ driverFormat = NoFormat
    /\ queuedRequests_ = << >>
    /\ pendingBuffers = << >>
    /\ completedRequests = << >>
    /\ conversion = NoFourcc
    /\ pads_ = << >>
    /\ lookup = NoLookup
    /\ requeued = << >>
    /\ pools = [s \in AllocStreams |->
                   SeqOfSet({ f \in FrameWraps : stream_(f) = s })]
    /\ outstanding_planes_ = [f \in FrameWraps |-> 0]
    /\ attached = [m \in Memories |-> 0]
    /\ downstream = [m \in Memories |-> 0]
    /\ queue = [s \in AllocStreams |-> SeqOfSet(GstBuffersOf(s))]
    /\ handed = {}
    /\ SrcIdle

\* the parts of the state the allocator and the pools leave alone
AllocUnchanged ==
    UNCHANGED << cache_, nops, countVars, poolVars, caps_, isOpen,
                 fdEvent_, bufferType_, memoryType_, queuedBuffers_, buffers,
                 bufferReady, kernel, formatVars, pipelineVars, conversion,
                 padVars, requeued, srcVars >>

\* the allocator's members that prepare_buffer and release work on
AllocState == [pools |-> pools, outstanding |-> outstanding_planes_,
               attached |-> attached]

\* variant of ReleasePlane that reports the frame free at each plane returned
ReleasePlaneAlways(outstanding) == TRUE

\* FrameWrap::ReleasePlane(): --outstanding_planes_ == 0, given the count
\* before the call
ReleasePlane(outstanding) == outstanding - 1 = 0

\* gst_libcamera_allocator_release(mem): the dispose hook of a GstMemory,
\* run when its last reference is dropped
gst_libcamera_allocator_release(st, mem) ==
    LET frame == mem[1]
        count == st.outstanding[frame]
    IN  [st EXCEPT !.outstanding[frame] = count - 1,
                   !.pools[stream_(frame)] =
                       IF ReleasePlane(count) THEN Append(@, frame) ELSE @]

\* gst_libcamera_allocator_prepare_buffer(self, stream, buffer): the frame
\* at the head of the stream's queue gives its memories to the buffer
gst_libcamera_allocator_prepare_buffer(st, stream, buffer) ==
    IF st.pools[stream] = << >>
    THEN [ok |-> FALSE, st |-> st]
    ELSE LET frame == Head(st.pools[stream])
             mems == { planes_(frame)[n] : n \in DOMAIN planes_(frame) }
         IN  [ok |-> TRUE,
              st |-> [st EXCEPT
                         !.pools[stream] = Tail(@),
                         !.outstanding[frame] = @ + Cardinality(mems),
                         !.attached = [m \in Memories |->
                                         IF m \in mems THEN buffer ELSE @[m]]]]

\* gst_libcamera_pool_acquire_buffer(pool, &buffer, params) on the pool of
\* stream
AcquireBuffer(stream) ==
    /\ IF queue[stream] = << >>
       THEN /\ last' = [NoOp EXCEPT !.op = "acquire_buffer",
                                    !.ret = GST_FLOW_ERROR]
            /\ UNCHANGED << allocVars >>
       ELSE LET buf == Head(queue[stream])
                r == gst_libcamera_allocator_prepare_buffer(AllocState,
                                                            stream, buf)
            IN  /\ queue' = [queue EXCEPT ![stream] = Tail(@)]
                /\ pools' = r.st.pools
                /\ outstanding_planes_' = r.st.outstanding
                /\ attached' = r.st.attached
                /\ handed' = IF r.ok THEN handed \cup {buf} ELSE handed
                /\ last' = [NoOp EXCEPT
                               !.op = "acquire_buffer", !.buffer = buf,
                               !.ret = IF r.ok THEN GST_FLOW_OK
                                       ELSE GST_FLOW_ERROR]
                /\ UNCHANGED downstream
    /\ AllocUnchanged

\* gst_buffer_remove_all_memory(buffer): the buffer drops its reference on
\* each of its memories in turn; a memory nobody else holds is disposed
RECURSIVE RemoveAllMemory(_, _)
RemoveAllMemory(st, mems) ==
    IF mems = {}
    THEN st
    ELSE LET mem == CHOOSE m \in mems :
                        \A o \in mems : m[1] < o[1] \/ (m[1] = o[1] /\ m[2] <= o[2])
             detached == [st EXCEPT !.attached[mem] = 0]
         IN  RemoveAllMemory(IF downstream[mem] = 0
                             THEN gst_libcamera_allocator_release(detached, mem)
                             ELSE detached,
                             mems \ {mem})

\* the last reference on a GstBuffer handed out is dropped: GstBufferPool
\* runs reset_buffer (gst_libcamera_pool_reset_buffer), then release_buffer
\* (gst_libcamera_pool_release_buffer)
ReleaseBuffer(buf) ==
    /\ buf \in handed
    /\ LET st == RemoveAllMemory(AllocState,
                                 { m \in Memories : attached[m] = buf })
       IN  /\ pools' = st.pools
           /\ outstanding_planes_' = st.outstanding
           /\ attached' = st.attached
    /\ queue' = [queue EXCEPT ![stream_(buf)] = Append(@, buf)]
    /\ handed' = handed \ {buf}
    /\ last' = [NoOp EXCEPT !.op = "release_buffer", !.buffer = buf]
    /\ UNCHANGED downstream
    /\ AllocUnchanged

\* an element that holds the buffer takes a reference of its own on one of
\* the buffer's memories (gst_memory_ref)
MemoryRef(mem) ==
    /\ attached[mem] \in handed
    /\ downstream[mem] = 0
    /\ downstream' = [downstream EXCEPT ![mem] = 1]
    /\ last' = [NoOp EXCEPT !.op = "memory_ref", !.buffer = attached[mem]]
    /\ UNCHANGED << pools, outstanding_planes_, attached, queue, handed >>
    /\ AllocUnchanged

\* that element drops its reference (gst_memory_unref); the memory is
\* disposed when its buffer has let go of it already
MemoryUnref(mem) ==
    /\ downstream[mem] > 0
    /\ downstream' = [downstream EXCEPT ![mem] = 0]
    /\ LET st == IF attached[mem] = 0
                 THEN gst_libcamera_allocator_release(AllocState, mem)
                 ELSE AllocState
       IN  /\ pools' = st.pools
           /\ outstanding_planes_' = st.outstanding
           /\ attached' = st.attached
    /\ last' = [NoOp EXCEPT !.op = "memory_unref", !.buffer = mem[1]]
    /\ UNCHANGED << queue, handed >>
    /\ AllocUnchanged

NextAlloc ==
    \/ \E stream \in AllocStreams : AcquireBuffer(stream)
    \/ \E buf \in FrameWraps : ReleaseBuffer(buf)
    \/ \E mem \in Memories : MemoryRef(mem)
    \/ \E mem \in Memories : MemoryUnref(mem)

SpecAlloc == AllocInit /\ [][NextAlloc]_vars

\* the memories of a frame that are appended to a buffer or referenced by
\* another element
OutstandingMemories(frame) ==
    { m \in Memories : m[1] = frame /\ (attached[m] # 0 \/ downstream[m] > 0) }

\* C37: a frame is in its stream's free queue only while none of its
\* memories is outstanding, its count is the number of its outstanding
\* memories, it is in the queue at most once, and its memories are never
\* appended to two GstBuffers at the same time
FrameReusedOnlyWhenAllMemoriesReturned ==
    /\ \A s \in AllocStreams : \A i \in DOMAIN pools[s] :
          /\ stream_(pools[s][i]) = s
          /\ outstanding_planes_[pools[s][i]] = 0
          /\ OutstandingMemories(pools[s][i]) = {}
          /\ \A j \in DOMAIN pools[s] : pools[s][j] = pools[s][i] => j = i
    /\ \A f \in FrameWraps :
          /\ outstanding_planes_[f] = Cardinality(OutstandingMemories(f))
          /\ Cardinality({ attached[m] : m \in OutstandingMemories(f) } \ {0}) <= 1

\* one memory of the two-plane frame has returned while another element
\* still holds the other: the frame is not in the free queue
FrameReuseWitness ==
    /\ last.op = "release_buffer"
    /\ outstanding_planes_[1] = 1
    /\ \A i \in DOMAIN pools[1] : pools[1][i] # 1

\* C38: a pool never loses a GstBuffer: the buffers in its queue plus the
\* buffers handed out are as many as the pool was created with
PoolKeepsItsBuffers ==
    \A s \in AllocStreams :
        Len(queue[s]) + Cardinality({ g \in handed : stream_(g) = s })
            = Cardinality(GstBuffersOf(s))


(***************************************************************************)
(* The GStreamer element: the streaming task and the camera's              *)
(* requestCompleted callback (src/gstreamer/gstlibcamerasrc.cpp), and the  *)
(* pending buffers of the source pads (src/gstreamer/gstlibcamerapad.cpp). *)
(* The task's thread and the camera's thread take steps in any order; the  *)
(* statements a thread runs between two points where the other thread can  *)
(* observe or change what it works on make one step.                       *)
(***************************************************************************)
\* GstLibcameraSrcState::srcpads; the stream of a pad's pool carries the
\* number of the pad
srcpads == {1, 2}

\* nullptr as a std::unique_ptr<RequestWrap>
NoWrap == [request_ |-> 0, buffers_ |-> << >>]

\* RequestWrap(request) after AttachBuffer for the pads 1..attached: the
\* buffer acquired for a request carries the number of the request
RequestWrap(request, count) ==
    [request_ |-> request, buffers_ |-> [p \in 1..count |-> request]]

\* RequestWrap::DetachBuffer(stream)
DetachBuffer(wrap, stream) ==
    IF stream \in DOMAIN wrap.buffers_ THEN wrap.buffers_[stream] ELSE 0

\* gst_libcamera_pad_queue_buffer: g_queue_push_head(&pending_buffers, buffer)
gst_libcamera_pad_queue_buffer(pending, buffer) == << buffer >> \o pending

\* variant of PopTail that takes the buffer at the head of the queue
PopHead(pending) ==
    IF pending = << >>
    THEN [buffer |-> 0, pending |-> pending]
    ELSE [buffer |-> Head(pending), pending |-> Tail(pending)]

\* gst_libcamera_pad_push_pending: g_queue_pop_tail(&pending_buffers), which
\* returns NULL on an empty queue
PopTail(pending) ==
    IF pending = << >>
    THEN [buffer |-> 0, pending |-> pending]
    ELSE [buffer |-> pending[Len(pending)],
          pending |-> SubSeq(pending, 1, Len(pending) - 1)]

\* gst_libcamera_pad_has_pending
gst_libcamera_pad_has_pending(pending) == Len(pending) > 0

\* variant of LockFree under which the object lock excludes nobody
LockIgnored(lock) == TRUE

\* GST_OBJECT_LOCKER(self): the scope is entered when no other thread holds
\* the element's object lock
LockFree(lock) == lock = "none"

\* variant of RequestAfterAcquire that keeps the request when an acquire
\* failed
RequestKept(request, failAt) == request

\* gst_libcamera_src_task_run, the acquire loop: the request is deleted and
\* set to NULL when the acquire of pad failAt fails (0: none fails)
RequestAfterAcquire(request, failAt) == IF failAt # 0 THEN 0 ELSE request

\* the element in the PLAYING state: the task started, its thread about to
\* call gst_libcamera_src_task_run, the camera started with no request
SrcInit ==
    /\ cache_ = NoCache
    /\ last = NoOp
    /\ nops = 0
    /\ numGets = 0
    /\ numPuts = 0
    /\ numPutsBound = 0
    /\ released = {}
    /\ pool = {}
    /\ held = [b \in {} |-> -1]
    /\ firstIndex = [b \in {} |-> -1]
    /\ caps_ = {"STREAMING", "VIDEO_CAPTURE"}
    /\ DeviceConstructed
    /\ format = NoFormat
    /\ driverFormat = NoFormat
    /\ queuedRequests_ = << >>
    /\ pendingBuffers = << >>
    /\ completedRequests = << >>
    /\ conversion = NoFourcc
    /\ pads_ = << >>
    /\ lookup = NoLookup
    /\ requeued = << >>
    /\ AllocIdle
    /\ task = [state |-> "STARTED", pc |-> "idle", request |-> 0,
               wrap |-> NoWrap, pad |-> 0, ret |-> GST_FLOW_OK,
               do_pause |-> FALSE]
    /\ callback = [pc |-> "idle", request |-> 0, status |-> "none",
                   wrap |-> NoWrap, pad |-> 0]
    /\ objectLock = "none"
    /\ requests = << >>
    /\ camera = [fifo |-> << >>, submitted |-> {}]
    /\ pending_buffers = [p \in srcpads |-> << >>]
    /\ pushed = [p \in srcpads |-> << >>]
    /\ queuedOnPad = [p \in srcpads |-> << >>]
    /\ nrequests = 0

\* the parts of the state the element leaves alone
SrcUnchanged ==
    UNCHANGED << cache_, nops, countVars, poolVars, caps_, isOpen,
                 fdEvent_, bufferType_, memoryType_, queuedBuffers_, buffers,
                 bufferReady, kernel, formatVars, pipelineVars, conversion,
                 padVars, requeued, allocVars >>

\* gst_libcamera_src_task_run, from its entry to the end of the acquire
\* loop: the GstTask thread calls it while the task is started. The pools
\* give no buffer once MaxRequests requests were created.
TaskRun(failAt) ==
    /\ task.state = "STARTED"
    /\ task.pc = "idle"
    /\ nrequests = MaxRequests => failAt # 0
    /\ LET request == RequestAfterAcquire(nrequests + 1, failAt)
           count == IF failAt = 0 THEN Cardinality(srcpads) ELSE failAt - 1
       IN  /\ task' = [task EXCEPT
                          !.pc = IF request # 0 THEN "queueRequest"
                                 ELSE "push_pending",
                          !.request = request,
                          !.wrap = RequestWrap(request, count),
                          !.pad = 1,
                          !.ret = GST_FLOW_OK]
           /\ nrequests' = IF request # 0 THEN nrequests + 1 ELSE nrequests
           /\ last' = [NoOp EXCEPT !.op = "acquire", !.buffer = request,
                                   !.index = failAt]
    /\ UNCHANGED << callback, objectLock, requests, camera, pending_buffers,
                    pushed, queuedOnPad >>
    /\ SrcUnchanged

\* if (request): GST_OBJECT_LOCKER(self); state->cam->queueRequest(request).
\* The camera records the request in its FIFO and submits it to the device;
\* a request whose submission fails stays recorded and never completes.
TaskQueueRequest(submitFails) ==
    /\ task.pc = "queueRequest"
    /\ LockFree(objectLock)
    /\ objectLock' = "task"
    /\ camera' = [fifo |-> Append(camera.fifo, task.request),
                  submitted |-> IF submitFails THEN camera.submitted
                                ELSE camera.submitted \cup {task.request}]
    /\ task' = [task EXCEPT !.pc = "push"]
    /\ last' = [NoOp EXCEPT !.op = "queueRequest", !.buffer = task.request,
                            !.ret = IF submitFails THEN -EIO ELSE 0]
    /\ UNCHANGED << callback, requests, pending_buffers, pushed, queuedOnPad,
                    nrequests >>
    /\ SrcUnchanged

\* state->requests.push(std::move(wrap)), and the end of the locker's scope
TaskPushWrap ==
    /\ task.pc = "push"
    /\ requests' = Append(requests, task.wrap)
    /\ objectLock' = "none"
    /\ task' = [task EXCEPT !.pc = "push_pending", !.wrap = NoWrap]
    /\ last' = [NoOp EXCEPT !.op = "push", !.buffer = task.request]
    /\ UNCHANGED << callback, camera, pending_buffers, pushed, queuedOnPad,
                    nrequests >>
    /\ SrcUnchanged

\* one turn of the loop over gst_libcamera_pad_push_pending(srcpad); flow is
\* what gst_pad_push returns. The flow combiner reports an error of any pad.
TaskPushPending(flow) ==
    /\ task.pc = "push_pending"
    /\ LET p == task.pad
           r == PopTail(pending_buffers[p])
           ret == IF r.buffer = 0 THEN GST_FLOW_OK ELSE flow
       IN  /\ pending_buffers' = [pending_buffers EXCEPT ![p] = r.pending]
           /\ pushed' = IF r.buffer = 0 THEN pushed
                        ELSE [pushed EXCEPT ![p] = Append(@, r.buffer)]
           /\ r.buffer = 0 => flow = GST_FLOW_OK
           /\ task' = [task EXCEPT
                          !.ret = IF ret # GST_FLOW_OK THEN ret ELSE @,
                          !.pad = IF p + 1 \in srcpads THEN p + 1 ELSE 0,
                          !.pc = IF p + 1 \in srcpads THEN "push_pending"
                                 ELSE "decide",
                          !.wrap = NoWrap]
           /\ last' = [NoOp EXCEPT !.op = "push_pending", !.index = p,
                                   !.buffer = r.buffer, !.ret = ret]
    /\ UNCHANGED << callback, objectLock, requests, camera, queuedOnPad,
                    nrequests >>
    /\ SrcUnchanged

\* the locked block at the end of gst_libcamera_src_task_run, up to the
\* loop over gst_libcamera_pad_has_pending: with a flow error the task is
\* stopped and the function returns
TaskDecide ==
    /\ task.pc = "decide"
    /\ LockFree(objectLock)
    /\ IF task.ret # GST_FLOW_OK
       THEN /\ task' = [task EXCEPT !.state = "STOPPED", !.pc = "idle"]
            /\ objectLock' = "none"
       ELSE /\ task' = [task EXCEPT
                           !.pc = "pause",
                           !.do_pause =
                               \A p \in srcpads :
                                   ~gst_libcamera_pad_has_pending(
                                        pending_buffers[p])]
            /\ objectLock' = "task"
    /\ last' = [NoOp EXCEPT !.op = "decide", !.ret = task.ret]
    /\ UNCHANGED << callback, requests, camera, pending_buffers, pushed,
                    queuedOnPad, nrequests >>
    /\ SrcUnchanged

\* if (do_pause) gst_task_pause(self->task), and the end of the locker's
\* scope: the function returns to the GstTask thread
TaskPause ==
    /\ task.pc = "pause"
    /\ task' = [task EXCEPT
                   !.state = IF task.do_pause THEN "PAUSED" ELSE @,
                   !.pc = "idle", !.do_pause = FALSE]
    /\ objectLock' = "none"
    /\ last' = [NoOp EXCEPT !.op = "pause", !.hit = task.do_pause]
    /\ UNCHANGED << callback, requests, camera, pending_buffers, pushed,
                    queuedOnPad, nrequests >>
    /\ SrcUnchanged

\* the camera completes a request it was given, in any order, and its
\* thread calls the requestCompleted slot
CameraCompletes(request, status) ==
    /\ callback.pc = "idle"
    /\ request \in camera.submitted
    /\ camera' = [fifo |-> SelectSeq(camera.fifo, LAMBDA q : q # request),
                  submitted |-> camera.submitted \ {request}]
    /\ callback' = [callback EXCEPT !.pc = "enter", !.request = request,
                                    !.status = status]
    /\ last' = [NoOp EXCEPT !.op = "requestComplete", !.buffer = request,
                            !.status = status]
    /\ UNCHANGED << task, objectLock, requests, pending_buffers, pushed,
                    queuedOnPad, nrequests >>
    /\ SrcUnchanged

\* requestCompleted, from GST_OBJECT_LOCKER(this->src) to the loop over the
\* pads: the front wrapper is popped; the function returns when it is not
\* the wrapper of the request or when the request was cancelled
RequestCompletedPop ==
    /\ callback.pc = "enter"
    /\ LockFree(objectLock)
    /\ requests # << >>
    /\ LET wrap == Head(requests)
           returns == \/ wrap.request_ # callback.request
                      \/ callback.status = "RequestCancelled"
       IN  /\ requests' = Tail(requests)
           /\ callback' = IF returns
                          THEN [callback EXCEPT !.pc = "idle"]
                          ELSE [callback EXCEPT !.pc = "queue", !.wrap = wrap,
                                                !.pad = 1]
           /\ objectLock' = IF returns THEN "none" ELSE "callback"
           /\ last' = [NoOp EXCEPT
                          !.op = "requestCompleted",
                          !.buffer = callback.request,
                          !.index = wrap.request_,
                          !.status = callback.status]
    /\ UNCHANGED << task, camera, pending_buffers, pushed, queuedOnPad,
                    nrequests >>
    /\ SrcUnchanged

\* one turn of the loop over the pads: DetachBuffer, then
\* gst_libcamera_pad_queue_buffer
RequestCompletedQueue ==
    /\ callback.pc = "queue"
    /\ LET p == callback.pad
           buffer == DetachBuffer(callback.wrap, p)
       IN  /\ pending_buffers' =
                  [pending_buffers EXCEPT
                      ![p] = gst_libcamera_pad_queue_buffer(@, buffer)]
           /\ queuedOnPad' = [queuedOnPad EXCEPT ![p] = Append(@, buffer)]
           /\ callback' = [callback EXCEPT
                              !.pad = IF p + 1 \in srcpads THEN p + 1 ELSE 0,
                              !.pc = IF p + 1 \in srcpads THEN "queue"
                                     ELSE "resume"]
           /\ last' = [NoOp EXCEPT !.op = "queue_buffer", !.index = p,
                                   !.buffer = buffer]
    /\ UNCHANGED << task, objectLock, requests, camera, pushed, nrequests >>
    /\ SrcUnchanged

\* the last block of requestCompleted: a paused task is started again; the
\* function returns and the wrapper is destroyed
RequestCompletedResume ==
    /\ callback.pc = "resume"
    /\ task' = [task EXCEPT
                   !.state = IF task.state = "PAUSED" THEN "STARTED" ELSE @]
    /\ objectLock' = "none"
    /\ callback' = [callback EXCEPT !.pc = "idle", !.wrap = NoWrap]
    /\ last' = [NoOp EXCEPT !.op = "resume", !.buffer = callback.request,
                            !.hit = (task.state = "PAUSED")]
    /\ UNCHANGED << requests, camera, pending_buffers, pushed, queuedOnPad,
                    nrequests >>
    /\ SrcUnchanged

\* gst_libcamera_src_change_state, GST_STATE_CHANGE_PAUSED_TO_PLAYING: the
\* application, having set the playing element to PAUSED (which leaves the
\* task as it is), sets it to PLAYING again: gst_task_start(self->task)
ChangeStatePausedToPlaying ==
    /\ task.state = "PAUSED"
    /\ task' = [task EXCEPT !.state = "STARTED"]
    /\ last' = [NoOp EXCEPT !.op = "gst_task_start"]
    /\ UNCHANGED << callback, objectLock, requests, camera, pending_buffers,
                    pushed, queuedOnPad, nrequests >>
    /\ SrcUnchanged

TaskStep ==
    \/ \E failAt \in {0} \cup srcpads : TaskRun(failAt)
    \/ \E submitFails \in BOOLEAN : TaskQueueRequest(submitFails)
    \/ TaskPushWrap
    \/ \E flow \in {GST_FLOW_OK, GST_FLOW_ERROR} : TaskPushPending(flow)
    \/ TaskDecide
    \/ TaskPause

CallbackStep ==
    \/ RequestCompletedPop
    \/ RequestCompletedQueue
    \/ RequestCompletedResume

NextSrc ==
    \/ TaskStep
    \/ \E request \in 1..MaxRequests,
          status \in {"RequestComplete", "RequestCancelled"} :
          CameraCompletes(request, status)
    \/ CallbackStep
    \/ ChangeStatePausedToPlaying

SpecSrc == SrcInit /\ [][NextSrc]_vars

\* the two threads keep running: a thread that can take a step takes it
SpecSrcLive == SpecSrc /\ WF_vars(TaskStep) /\ WF_vars(CallbackStep)


\* C35: whenever no thread is inside a scope of the element's object lock,
\* a paused task means that no pad has a pending buffer; and under
\* SpecSrcLive a buffer pending on a pad is eventually pushed (the pad's
\* queue empties) unless the task was stopped by a flow error.
TaskNeverPausedWithPending ==
    /\ [](LockFree(objectLock) /\ task.state = "PAUSED"
              => \A p \in srcpads : pending_buffers[p] = << >>)
    /\ \A p \in srcpads :
           (pending_buffers[p] # << >>)
               ~> (pending_buffers[p] = << >> \/ task.state = "STOPPED")

\* C35 witness: the callback queued a buffer on every pad, found the task
\* paused and started it again
PausedTaskResumedWitness ==
    /\ last.op = "resume"
    /\ last.hit
    /\ task.state = "STARTED"
    /\ \A p \in srcpads : pending_buffers[p] # << >>


\* C36: whenever requestCompleted runs for a request, the element's request
\* queue is not empty and the wrapper at its front is the wrapper of that
\* request, whatever the order in which the camera completes the requests.
FrontIsWrapperOfCompletedRequest ==
    [][callback.pc = "enter" /\ callback'.pc # "enter"
           => /\ requests # << >>
              /\ Head(requests).request_ = callback.request]_vars


\* the requests the camera was given and has not reported complete
QueuedNotCompleted ==
    Len(camera.fifo) + (IF callback.pc = "enter" THEN 1 ELSE 0)

\* the wrappers of the request queue, with the one the task pushes before
\* it leaves the lock scope in which it queued the request
WrappersQueued == Len(requests) + (IF task.pc = "push" THEN 1 ELSE 0)

PadPushesInQueueOrder ==
    /\ [](\A p \in srcpads :
              /\ Len(pushed[p]) <= Len(queuedOnPad[p])
              /\ pushed[p] = SubSeq(queuedOnPad[p], 1, Len(pushed[p])))
    /\ [][last'.op = "push_pending" /\ task.pc = "push_pending"
              => LET p == task.pad
                 IN  /\ last'.index = p
                     /\ \A q \in srcpads \ {p} :
                            /\ pushed'[q] = pushed[q]
                            /\ pending_buffers'[q] = pending_buffers[q]
                     /\ IF pending_buffers[p] = << >>
                        THEN /\ pushed'[p] = pushed[p]
                             /\ pending_buffers'[p] = << >>
                             /\ last'.ret = GST_FLOW_OK
                        ELSE /\ Len(pushed'[p]) = Len(pushed[p]) + 1
                             /\ Len(pending_buffers'[p])
                                    = Len(pending_buffers[p]) - 1
                             /\ pushed'[p][Len(pushed'[p])]
                                    = queuedOnPad[p][Len(pushed[p]) + 1]]_vars

\* C40 witness: a pad that held two pending buffers has pushed the older
\* one, its second push, and still holds the newer one
SecondPushWitness ==
    /\ last.op = "push_pending"
    /\ last.buffer # 0
    /\ Len(pushed[last.index]) = 2
    /\ pending_buffers[last.index] # << >>

\* C40 witness, the empty case: a call on a pad with nothing pending, while
\* the other pad holds a buffer
EmptyPushWitness ==
    /\ last.op = "push_pending"
    /\ last.buffer = 0
    /\ last.ret = GST_FLOW_OK
    /\ \E q \in srcpads \ {last.index} : pending_buffers[q] # << >>

====
